---- MODULE Spec2Model ----
(***************************************************************************)
(* The connection pool of src/client/legacy/pool.rs as a state machine.    *)
(*                                                                         *)
(* PoolInner's fields are the variables connecting, idle, waiters,         *)
(* idle_interval_ref, max_idle_per_host, timeout and timer.  The objects   *)
(* callers hold (Connecting tokens, Pooled handles, Checkout futures and   *)
(* the oneshot channel of each Checkout) are the variables tokens,         *)
(* handles and checkouts.  Every section that holds the mutex is one      *)
(* action.  What a drop does outside the mutex is an action of its own: a  *)
(* dropped Checkout releases its receiver before it locks and its clone of *)
(* the Pool after it has unlocked; a dropped Pooled or Connecting, and the *)
(* IdleTask in a pass, upgrade their weak reference before they lock and   *)
(* release the Arc it gave after they have unlocked.                       *)
(***************************************************************************)
EXTENDS Integers, Sequences, FiniteSets, Bags, TLC

\* ---------------------------------------------------------------- bounds
\* Values (connections) ever handed to Pool::pooled.
MaxVals == 2
\* Checkout futures ever created by Pool::checkout.
MaxCheckouts == 2
\* Connecting tokens alive at the same time.
MaxTokens == 2
\* Clock ticks, each of TickMs milliseconds.
MaxTicks == 2
TickMs == 45

\* ------------------------------------------------------ program constants
\* const MIN_CHECK: Duration = Duration::from_millis(90)
MIN_CHECK == 90
\* idle_timeout of test_pool_timer_removes_expired
IdleTimeoutMs == 10
\* max_idle_per_host of test_pool_max_idle_per_host
MaxIdleCap == 2
\* idle_timeout of pool_max_idle_no_timer
TestTimeoutMs == 100

Keys == {"foo", "bar"}
Vers == {"Auto", "Http2"}
\* A value T: its identity and what its can_share() answers.
Val(i, share) == [id |-> i, share |-> share]
NoVal == Val(0, FALSE)

\* Option<Duration>
NoDuration == [is_some |-> FALSE, dur |-> 0]
SomeDuration(d) == [is_some |-> TRUE, dur |-> d]

VARIABLES
    pool_handle,        \* the caller still holds a Pool (a strong reference)
    inner_alive,        \* the Arc<Mutex<PoolInner>> has not been released
    max_idle_per_host,  \* Config.max_idle_per_host / PoolInner.max_idle_per_host
    timeout,            \* PoolInner.timeout: Option<Duration>
    timer,              \* PoolInner.timer is Some
    connecting,         \* PoolInner.connecting: HashSet<K>
    idle,               \* PoolInner.idle: HashMap<K, Vec<Idle<T>>>
    waiters,            \* PoolInner.waiters: HashMap<K, VecDeque<Sender<T>>>
    idle_interval_ref,  \* PoolInner.idle_interval_ref is Some
    task,               \* the spawned IdleTask
    n_vals,             \* how many values have been created
    val_closed,         \* the values whose is_open() is false
    tokens,             \* bag of the live Connecting tokens
    handles,            \* bag of the live Pooled handles
    arcs,               \* bag of the Arcs that drops under way still hold
    checkouts,          \* the Checkout futures, in creation order
    now,                \* Instant::now(), in milliseconds
    assert_failed,      \* the debug_assert!s of the code that have been falsified
    limits,             \* how much the callers do: keys, vals, checkouts, ...
    last                \* the last call and what it returned

vars == << pool_handle, inner_alive, max_idle_per_host, timeout, timer,
           connecting, idle, waiters, idle_interval_ref, task, n_vals,
           val_closed, tokens, handles, arcs, checkouts, now,
           assert_failed, limits, last >>

\* ------------------------------------------------------------ map helpers
\* HashMap::remove
Remove(m, k) == [x \in DOMAIN m \ {k} |-> m[x]]
\* HashMap::insert
Insert(m, k, v) == [x \in DOMAIN m \cup {k} |-> IF x = k THEN v ELSE m[x]]
EmptyMap == [x \in {} |-> <<>>]

Range(s) == {s[i] : i \in DOMAIN s}

Max(a, b) == IF a >= b THEN a ELSE b

\* A faulty is_enabled: `>=` where the code has `>`.
is_enabled_ge == max_idle_per_host >= 0

\* Config::is_enabled
is_enabled == max_idle_per_host > 0

\* ----------------------------------------------------- Poolable capability
\* Poolable::is_open
is_open(v) == v.id \notin val_closed
\* Poolable::can_share
can_share(v) == v.share
\* Poolable::reserve: Shared(keep, give) for a shareable value (both halves
\* are handles of the same connection), Unique(give) otherwise.
reserve(v) ==
    IF can_share(v)
    THEN [shared |-> TRUE, keep |-> v, give |-> v]
    ELSE [shared |-> FALSE, keep |-> NoVal, give |-> v]

\* Instant::saturating_duration_since
saturating_duration_since(later, earlier) ==
    IF later >= earlier THEN later - earlier ELSE 0

\* A faulty expires: no entry is ever too old.
expires_never(instant) == FALSE

\* Expiration::expires
expires(instant) ==
    IF timeout.is_some
    THEN saturating_duration_since(now, instant) > timeout.dur
    ELSE FALSE

\* Idle<T>
Idle(v, at) == [value |-> v, idle_at |-> at]

NoEntry == Idle(NoVal, 0)

\* A faulty pop: list.last() where the code has list.pop(), so the entry it
\* returns stays in the list.
pop_peek(list) ==
    IF list = <<>>
    THEN [found |-> FALSE, entry |-> NoEntry, list |-> <<>>]
    ELSE [found |-> TRUE, entry |-> list[Len(list)], list |-> list]

\* A faulty pop: the oldest entry is taken, untested.
pop_oldest(list) ==
    IF list = <<>>
    THEN [found |-> FALSE, entry |-> NoEntry, list |-> <<>>]
    ELSE [found |-> TRUE, entry |-> Head(list), list |-> Tail(list)]

\* IdlePopper::pop: Option<Idle<T>> and what is left of the list
RECURSIVE pop(_)
pop(list) ==
    IF list = <<>>
    THEN [found |-> FALSE, entry |-> NoEntry, list |-> <<>>]
    ELSE LET entry == list[Len(list)]
             rest == SubSeq(list, 1, Len(list) - 1)
         IN IF ~is_open(entry.value) THEN pop(rest)
            ELSE IF expires(entry.idle_at) THEN pop(rest)
            ELSE IF reserve(entry.value).shared
                 THEN [found |-> TRUE,
                       entry |-> Idle(reserve(entry.value).give, entry.idle_at),
                       list |-> Append(rest, Idle(reserve(entry.value).keep, now))]
                 ELSE [found |-> TRUE,
                       entry |-> Idle(reserve(entry.value).give, entry.idle_at),
                       list |-> rest]

\* ------------------------------------------------------------- Checkouts
\* A Checkout and the oneshot channel it creates when it parks:
\*   st      created | parked | dropping | done | dropped
\*   waiter  Checkout.waiter is Some (the Receiver is alive)
\*   tx      the Sender: none | queued (in waiters) | sent | dropped
\*   slot    the value travelling in the channel
\*   woken   the task registered with the Receiver has been woken
\*   result  what the last poll returned
\*   value   the value of the Pooled it resolved with
NewCheckout(k) ==
    [key |-> k, st |-> "created", waiter |-> FALSE, tx |-> "none",
     slot |-> NoVal, woken |-> FALSE, result |-> "None", value |-> NoVal]

Cids == DOMAIN checkouts

\* The Checkouts that still hold their clone of the Pool: every Checkout
\* that has not been dropped, resolved or not.
LiveCheckouts(cos) ==
    {c \in DOMAIN cos :
        cos[c].st \in {"created", "parked", "dropping", "cleaned", "done"}}

\* oneshot::Sender::is_canceled: the Receiver has been dropped
is_canceled(cos, tx) == ~cos[tx].waiter

\* Dropping the Senders in S: a Receiver still alive is woken and will
\* read Canceled.
DropSenders(cos, S) ==
    [c \in DOMAIN cos |->
        IF c \in S
        THEN [cos[c] EXCEPT !.tx = "dropped", !.woken = @ \/ cos[c].waiter]
        ELSE cos[c]]

\* oneshot::Sender::send that returned Ok(()), to each Sender in S
SendTo(cos, S, v) ==
    [c \in DOMAIN cos |->
        IF c \in S
        THEN [cos[c] EXCEPT !.tx = "sent", !.slot = v, !.woken = TRUE]
        ELSE cos[c]]

\* The Receivers in S are dropped at this very moment, by the first step of
\* Drop for Checkout running on another thread.
DropReceivers(cos, S) ==
    [c \in DOMAIN cos |->
        IF c \in S
        THEN [cos[c] EXCEPT !.st = "dropping", !.waiter = FALSE,
                            !.slot = NoVal, !.woken = FALSE]
        ELSE cos[c]]

\* ------------------------------------------------------------- PoolInner
NoTask == [st |-> "none", duration |-> 0, deadline |-> 0]

\* A faulty spawn_idle_interval: idle_interval_ref is not looked at.
spawn_idle_interval_again ==
    IF ~timeout.is_some
    THEN [idle_interval_ref |-> idle_interval_ref, task |-> task]
    ELSE IF timeout.dur = 0
    THEN [idle_interval_ref |-> idle_interval_ref, task |-> task]
    ELSE IF ~timer
    THEN [idle_interval_ref |-> idle_interval_ref, task |-> task]
    ELSE [idle_interval_ref |-> TRUE,
          task |-> [st |-> "spawned",
                    duration |-> Max(timeout.dur, MIN_CHECK),
                    deadline |-> 0]]

\* A faulty spawn_idle_interval: the duration is not raised to MIN_CHECK.
spawn_idle_interval_no_min ==
    IF idle_interval_ref
    THEN [idle_interval_ref |-> idle_interval_ref, task |-> task]
    ELSE IF ~timeout.is_some
    THEN [idle_interval_ref |-> idle_interval_ref, task |-> task]
    ELSE IF timeout.dur = 0
    THEN [idle_interval_ref |-> idle_interval_ref, task |-> task]
    ELSE IF ~timer
    THEN [idle_interval_ref |-> idle_interval_ref, task |-> task]
    ELSE [idle_interval_ref |-> TRUE,
          task |-> [st |-> "spawned",
                    duration |-> timeout.dur,
                    deadline |-> 0]]

\* PoolInner::spawn_idle_interval: the new idle_interval_ref and IdleTask
spawn_idle_interval ==
    IF idle_interval_ref
    THEN [idle_interval_ref |-> idle_interval_ref, task |-> task]
    ELSE IF ~timeout.is_some
    THEN [idle_interval_ref |-> idle_interval_ref, task |-> task]
    ELSE IF timeout.dur = 0
    THEN [idle_interval_ref |-> idle_interval_ref, task |-> task]
    ELSE IF ~timer
    THEN [idle_interval_ref |-> idle_interval_ref, task |-> task]
    ELSE [idle_interval_ref |-> TRUE,
          \* self.exec.execute(interval.run()): the future is handed to the
          \* executor and has not been polled
          task |-> [st |-> "spawned",
                    duration |-> Max(timeout.dur, MIN_CHECK),
                    deadline |-> 0]]

\* A faulty dequeue: pop_back where the code has pop_front.
pop_back(q) == [tx |-> q[Len(q)], rest |-> SubSeq(q, 1, Len(q) - 1)]

\* waiters.pop_front() of a queue that is not empty
pop_front(q) == [tx |-> Head(q), rest |-> Tail(q)]

\* A faulty put: the waiters of the key are never looked at.
put_loop_skips(q, value, racers) ==
    [q |-> q, have |-> TRUE, sent |-> {}, failed |-> {}, canceled |-> {}]

\* A faulty put: only the Sender at the head of the queue is tried.
put_loop_first_only(q, value, racers) ==
    IF q = <<>>
    THEN [q |-> q, have |-> TRUE, sent |-> {}, failed |-> {}, canceled |-> {}]
    ELSE IF is_canceled(checkouts, pop_front(q).tx)
    THEN [q |-> pop_front(q).rest, have |-> TRUE, sent |-> {},
          failed |-> {}, canceled |-> {pop_front(q).tx}]
    ELSE IF pop_front(q).tx \in racers
    THEN [q |-> pop_front(q).rest, have |-> TRUE, sent |-> {},
          failed |-> {pop_front(q).tx}, canceled |-> {}]
    ELSE [q |-> pop_front(q).rest, have |-> reserve(value).shared,
          sent |-> {pop_front(q).tx}, failed |-> {}, canceled |-> {}]

\* The while-let loop of PoolInner::put over the waiters of the key.
\* racers are the waiters whose Receiver is dropped between the
\* is_canceled() test and send(): their send returns Err(value).
\*   q         what is left of the queue
\*   have      `value` is still Some after the loop
\*   sent      the Senders whose send returned Ok
\*   failed    the Senders whose send returned Err
\*   canceled  the Senders found canceled
RECURSIVE put_loop(_, _, _)
put_loop(q, value, racers) ==
    IF q = <<>>
    THEN [q |-> q, have |-> TRUE, sent |-> {}, failed |-> {}, canceled |-> {}]
    ELSE LET tx == pop_front(q).tx
             rest == pop_front(q).rest
         IN IF is_canceled(checkouts, tx)
            THEN LET r == put_loop(rest, value, racers)
                 IN [r EXCEPT !.canceled = @ \cup {tx}]
            ELSE IF tx \in racers
            THEN LET r == put_loop(rest, value, racers)
                 IN [r EXCEPT !.failed = @ \cup {tx}]
            ELSE IF reserve(value).shared
            THEN LET r == put_loop(rest, value, racers)
                 IN [r EXCEPT !.sent = @ \cup {tx}]
            ELSE [q |-> rest, have |-> FALSE, sent |-> {tx},
                  failed |-> {}, canceled |-> {}]

\* A faulty put: no test for a shareable value that is already idle.
put_existing_never(key, value) == FALSE

\* A faulty cap: `<` where the code has `<=`.
put_full_off_by_one(idle_list) == max_idle_per_host < Len(idle_list)

\* PoolInner::put, its first test: a shareable value is already idle
put_existing(key, value) == can_share(value) /\ key \in DOMAIN idle

\* PoolInner::put, the cap: self.max_idle_per_host <= idle_list.len()
put_full(idle_list) == max_idle_per_host <= Len(idle_list)

\* PoolInner::put: the fields of PoolInner and the channels after the call
put(key, value, racers) ==
    IF put_existing(key, value)
    THEN [idle |-> idle, waiters |-> waiters, checkouts |-> checkouts,
          idle_interval_ref |-> idle_interval_ref, task |-> task,
          failed |-> {}, sent |-> {}, inserted |-> FALSE,
          outcome |-> "existing"]
    ELSE LET has_waiters == key \in DOMAIN waiters
             r == IF has_waiters
                  THEN put_loop(waiters[key], value, racers)
                  ELSE [q |-> <<>>, have |-> TRUE, sent |-> {},
                        failed |-> {}, canceled |-> {}]
             remove_waiters == has_waiters /\ r.q = <<>>
             waiters1 == IF remove_waiters THEN Remove(waiters, key)
                         ELSE IF has_waiters THEN [waiters EXCEPT ![key] = r.q]
                         ELSE waiters
             cos1 == DropSenders(
                        DropReceivers(
                            SendTo(checkouts, r.sent, reserve(value).give),
                            r.failed),
                        r.failed \cup r.canceled)
             \* self.idle.entry(key).or_default()
             idle_list == IF key \in DOMAIN idle THEN idle[key] ELSE <<>>
             full == put_full(idle_list)
             inserted == r.have /\ ~full
             idle1 == IF ~r.have THEN idle
                      ELSE IF full THEN Insert(idle, key, idle_list)
                      ELSE Insert(idle, key, Append(idle_list, Idle(value, now)))
             spawned == IF inserted THEN spawn_idle_interval
                        ELSE [idle_interval_ref |-> idle_interval_ref,
                              task |-> task]
         IN [idle |-> idle1, waiters |-> waiters1, checkouts |-> cos1,
             idle_interval_ref |-> spawned.idle_interval_ref,
             task |-> spawned.task,
             failed |-> r.failed, sent |-> r.sent, inserted |-> inserted,
             outcome |-> IF ~r.have THEN "sent"
                         ELSE IF full THEN "full" ELSE "idle"]

\* A faulty connected: the waiters of the key are left where they are.
connected_keeps_waiters(conn, ws, cos, key) ==
    [existed |-> key \in conn, connecting |-> conn \ {key},
     waiters |-> ws, checkouts |-> cos]

\* PoolInner::connected, on the given connecting set, waiters and channels
connected(conn, ws, cos, key) ==
    [existed |-> key \in conn,
     connecting |-> conn \ {key},
     waiters |-> Remove(ws, key),
     checkouts |-> IF key \in DOMAIN ws
                   THEN DropSenders(cos, Range(ws[key]))
                   ELSE cos]

\* A faulty clean_waiters: nothing is removed.
clean_waiters_noop(ws, cos, key) == [waiters |-> ws, checkouts |-> cos]

\* A faulty clean_waiters: the emptied queue stays in the map.
clean_waiters_keeps(ws, cos, key) ==
    IF key \in DOMAIN ws
    THEN LET kept == SelectSeq(ws[key], LAMBDA tx : ~is_canceled(cos, tx))
         IN [waiters |-> [ws EXCEPT ![key] = kept],
             checkouts |-> DropSenders(cos, Range(ws[key]) \ Range(kept))]
    ELSE [waiters |-> ws, checkouts |-> cos]

\* PoolInner::clean_waiters
clean_waiters(ws, cos, key) ==
    IF key \in DOMAIN ws
    THEN LET kept == SelectSeq(ws[key], LAMBDA tx : ~is_canceled(cos, tx))
         IN [waiters |-> IF kept = <<>> THEN Remove(ws, key)
                         ELSE [ws EXCEPT ![key] = kept],
             checkouts |-> DropSenders(cos, Range(ws[key]) \ Range(kept))]
    ELSE [waiters |-> ws, checkouts |-> cos]

\* A faulty clear_expired: is_open() is not asked.
clear_expired_keeps_closed ==
    LET values(k) ==
            SelectSeq(idle[k],
                LAMBDA entry :
                    ~(saturating_duration_since(now, entry.idle_at)
                            > timeout.dur))
    IN [k \in {x \in DOMAIN idle : values(x) # <<>>} |-> values(k)]

\* PoolInner::clear_expired: the idle map after both retain calls
clear_expired ==
    LET values(k) ==
            SelectSeq(idle[k],
                LAMBDA entry :
                    /\ is_open(entry.value)
                    /\ ~(saturating_duration_since(now, entry.idle_at)
                            > timeout.dur))
    IN [k \in {x \in DOMAIN idle : values(x) # <<>>} |-> values(k)]

\* An Arc that self.pool.upgrade() gave is held: by the drop of a Pooled or
\* of a Connecting that has upgraded and not yet locked (the handle or token
\* is marked), by the IdleTask inside a pass, or by a drop that has left
\* its lock and not yet its `if let Some(pool)` (the bag as).
InFlight(hs, toks, tsk, as) ==
    \/ \E h \in BagToSet(hs) : h.arc
    \/ \E tok \in BagToSet(toks) : tok.arc
    \/ tsk.st \in {"upgraded", "cleared"}
    \/ as # EmptyBag

\* Some Arc of PoolInner is left: a Pool of the caller, the clone a
\* Checkout keeps, or one that an upgrade gave.
StrongRefs(handle, cos, hs, toks, tsk, as) ==
    handle \/ LiveCheckouts(cos) # {} \/ InFlight(hs, toks, tsk, as)

\* ------------------------------------------------------------- the state
\* Pool::new
InitWith(cfg, lim) ==
    /\ limits = lim
    /\ pool_handle = TRUE
    /\ max_idle_per_host = cfg.max_idle_per_host
    /\ timeout = cfg.timeout
    /\ timer = cfg.timer
    \* inner is Some iff config.is_enabled()
    /\ inner_alive = (cfg.max_idle_per_host > 0)
    /\ connecting = {}
    /\ idle = EmptyMap
    /\ waiters = EmptyMap
    /\ idle_interval_ref = FALSE
    /\ task = NoTask
    /\ n_vals = 0
    /\ val_closed = {}
    /\ tokens = EmptyBag
    /\ handles = EmptyBag
    /\ arcs = EmptyBag
    /\ checkouts = <<>>
    /\ now = 0
    /\ assert_failed = {}
    /\ last = [op |-> "new", key |-> "", arg |-> "", ret |-> "", age |-> 0]

\* Connecting<T, K>
Token(k, ref) == [key |-> k, pool |-> ref, ret |-> "none", arc |-> FALSE]

\* The self of a Connecting::alpn_h2 that is under way: the delegated
\* pool.connecting has returned ret ("Some" or "None"), and self, consumed
\* by the call, has not been dropped yet.
AlpnSelf(tok, ret) == [tok EXCEPT !.ret = ret]
\* fn c(key) of the tests: a Connecting built without Pool::connecting
c(key) == Token(key, FALSE)
\* Pooled<T, K>
Handle(k, v, reused, ref) ==
    [key |-> k, value |-> v, is_reused |-> reused, pool |-> ref,
     arc |-> FALSE]
\* The Arc<Mutex<PoolInner>> local to a drop that has left its lock; ret is
\* what the alpn_h2 whose self is being dropped will return
Arc(of, k, ret) == [of |-> of, key |-> k, ret |-> ret]

One(x) == SetToBag({x})

\* What `last` records: the call, its key, and what came of it.
\* For a poll that resolved from the idle list, age is how long the entry it
\* returns had been idle.
PollCall(k, via, ret, age) ==
    [op |-> "poll", key |-> k, arg |-> via, ret |-> ret, age |-> age]
Call(op, k, arg, ret) ==
    [op |-> op, key |-> k, arg |-> arg, ret |-> ret, age |-> 0]
NoCall == Call("", "", "", "")

\* The values some object of the given state still holds.
IdleVals(idl) ==
    UNION {{idl[k][i].value : i \in DOMAIN idl[k]} : k \in DOMAIN idl}
SlotVals(cos) == {cos[x].slot : x \in DOMAIN cos} \ {NoVal}
HandleVals(hs) == {h.value : h \in BagToSet(hs)}
Held(idl, cos, hs) == IdleVals(idl) \cup SlotVals(cos) \cup HandleVals(hs)

\* A value nothing holds any more is gone, and its closed flag with it.
Forget == val_closed' =
    {i \in val_closed : \E v \in Held(idle', checkouts', handles') : v.id = i}

\* The fields of PoolInner after a step.  When the step released the last
\* strong reference, PoolInner is dropped and all its fields with it.
Commit(conn, idl, ws, iref, tsk, cos, handle, hs, toks, as) ==
    /\ pool_handle' = handle
    /\ task' = tsk
    /\ IF inner_alive /\ ~StrongRefs(handle, cos, hs, toks, tsk, as)
       THEN /\ inner_alive' = FALSE
            /\ connecting' = {}
            /\ idle' = EmptyMap
            /\ waiters' = EmptyMap
            /\ idle_interval_ref' = FALSE
            /\ checkouts' = DropSenders(cos,
                    UNION {Range(ws[k]) : k \in DOMAIN ws})
       ELSE /\ inner_alive' = inner_alive
            /\ connecting' = conn
            /\ idle' = idl
            /\ waiters' = ws
            /\ idle_interval_ref' = iref
            /\ checkouts' = cos

Config == << max_idle_per_host, timeout, timer, limits >>
Inner == << pool_handle, inner_alive, connecting, idle, waiters,
            idle_interval_ref, task, checkouts >>

\* The waiters of key k that are parked right now: the only ones whose
\* Receiver can be dropped while a put is running.
Parked(k) ==
    IF k \in DOMAIN waiters
    THEN {x \in Range(waiters[k]) : checkouts[x].st = "parked"}
    ELSE {}

\* ------------------------------------------------------------ operations
\* The Connecting tokens that are not gone yet: those held, and those whose
\* drop still holds the Arc it upgraded to.
LiveTokens ==
    LET dropping == {a \in BagToSet(arcs) : a.of = "Connecting"}
    IN BagCardinality(tokens)
        + BagCardinality([a \in dropping |-> arcs[a]])

\* A faulty Pool::connecting: the result of connecting.insert is ignored.
ConnectingCallGrants(k, ver) ==
    /\ pool_handle
    /\ LiveTokens < limits.tokens
    /\ IF ver = "Http2" /\ is_enabled
       THEN /\ connecting' = connecting \cup {k}
            /\ tokens' = tokens (+) One(Token(k, TRUE))
            /\ last' = Call("connecting", k, ver, "SomeRef")
       ELSE /\ tokens' = tokens (+) One(Token(k, FALSE))
            /\ connecting' = connecting
            /\ last' = Call("connecting", k, ver, "SomeNoRef")
    /\ UNCHANGED << pool_handle, inner_alive, Config, idle, waiters,
                    idle_interval_ref, task, n_vals, val_closed, handles,
                    checkouts, now, assert_failed, arcs >>

\* Pool::connecting
ConnectingCall(k, ver) ==
    /\ pool_handle
    /\ LiveTokens < limits.tokens
    /\ IF ver = "Http2" /\ is_enabled
       THEN IF k \notin connecting
            THEN /\ connecting' = connecting \cup {k}
                 /\ tokens' = tokens (+) One(Token(k, TRUE))
                 /\ last' = Call("connecting", k, ver, "SomeRef")
            ELSE /\ UNCHANGED << connecting, tokens >>
                 /\ last' = Call("connecting", k, ver, "None")
       ELSE /\ tokens' = tokens (+) One(Token(k, FALSE))
            /\ connecting' = connecting
            /\ last' = Call("connecting", k, ver, "SomeNoRef")
    /\ UNCHANGED << pool_handle, inner_alive, Config, idle, waiters,
                    idle_interval_ref, task, n_vals, val_closed, handles,
                    checkouts, now, assert_failed, arcs >>

\* A debug_assert! whose condition is false is recorded by the name of the
\* function it stands in; the build without debug assertions goes on.
Failed(failed, name, cond) == IF cond THEN failed \cup {name} ELSE failed

\* Connecting::alpn_h2, up to the return of pool.connecting(&self.key,
\* Ver::Http2).  A self with no back-ref is dropped without a look at the
\* pool, so the call is this one step.  A self that holds a back-ref fails
\* the debug_assert!; without debug assertions the call goes on, and the
\* drop of self, which takes the lock a second time, is the step TokenDrop
\* of the self left in tokens.
AlpnH2(tok) ==
    /\ pool_handle
    /\ BagIn(tok, tokens)
    /\ tok.ret = "none"
    /\ ~tok.arc
    /\ IF ~tok.pool
       THEN /\ IF is_enabled
               THEN IF tok.key \notin connecting
                    THEN /\ connecting' = connecting \cup {tok.key}
                         /\ tokens' = (tokens (-) One(tok))
                                        (+) One(Token(tok.key, TRUE))
                         /\ last' = Call("alpn_h2", tok.key, "Http2", "SomeRef")
                    ELSE /\ connecting' = connecting
                         /\ tokens' = tokens (-) One(tok)
                         /\ last' = Call("alpn_h2", tok.key, "Http2", "None")
               ELSE /\ connecting' = connecting
                    /\ tokens' = tokens
                    /\ last' = Call("alpn_h2", tok.key, "Http2", "SomeNoRef")
            /\ assert_failed' = assert_failed
       ELSE LET granted == tok.key \notin connecting
                ret == IF granted THEN "Some" ELSE "None"
            IN /\ connecting' = connecting \cup {tok.key}
               /\ tokens' = (tokens (-) One(tok)) (+) One(AlpnSelf(tok, ret))
               /\ last' = Call("alpn_h2", tok.key, "AlreadyHttp2",
                               IF granted THEN "SomeRef" ELSE "None")
               /\ assert_failed' = assert_failed \cup {"alpn_h2"}
    /\ UNCHANGED << pool_handle, inner_alive, Config, idle, waiters,
                    idle_interval_ref, task, n_vals, val_closed, handles,
                    checkouts, now, arcs >>

\* Drop for Connecting, up to self.pool.upgrade(): a live back-ref gives an
\* Arc of PoolInner; with none there is nothing to do.  The self of an
\* alpn_h2 under way is dropped as any token is.
TokenDrop(tok) ==
    /\ BagIn(tok, tokens)
    /\ ~tok.arc
    /\ IF tok.pool /\ inner_alive
       THEN /\ tokens' = (tokens (-) One(tok)) (+) One([tok EXCEPT !.arc = TRUE])
            /\ last' = Call("upgrade", tok.key, "Connecting", "Some")
       ELSE /\ tokens' = IF tok.ret = "Some"
                         THEN (tokens (-) One(tok))
                                (+) One(Token(tok.key, TRUE))
                         ELSE tokens (-) One(tok)
            /\ last' = Call("drop_connecting", tok.key,
                            IF tok.ret = "none" THEN "" ELSE "alpn_h2", "")
    /\ UNCHANGED << Inner, Config, n_vals, val_closed, handles, arcs, now,
                    assert_failed >>

\* Drop for Connecting, `if let Ok(mut inner) = pool.lock()`: connected
\* runs under the lock.  The Arc lives on after the MutexGuard is gone.
TokenConnected(tok) ==
    /\ BagIn(tok, tokens)
    /\ tok.arc
    /\ tokens' = tokens (-) One(tok)
    /\ arcs' = arcs (+) One(Arc("Connecting", tok.key, tok.ret))
    /\ LET r == connected(connecting, waiters, checkouts, tok.key)
       IN /\ Commit(r.connecting, idle, r.waiters, idle_interval_ref,
                    task, r.checkouts, pool_handle,
                    handles, tokens', arcs')
          /\ assert_failed' = Failed(assert_failed, "connected",
                                    ~r.existed)
    /\ last' = Call("drop_connecting", tok.key,
                    IF tok.ret = "none" THEN "" ELSE "alpn_h2", "")
    /\ UNCHANGED << Config, n_vals, val_closed, handles, now >>

\* Pool::pooled, with a value that has just been established.  The token
\* is one the caller holds (held), got from Pool::connecting in an earlier
\* step, or it is built on the spot without a back-ref, as fn c(key) of the
\* tests does: pool.pooled(c(key), value).
PooledCall(tok, held, share, racers) ==
    /\ pool_handle
    /\ IF held THEN BagIn(tok, tokens) /\ tok.ret = "none" /\ ~tok.arc
       ELSE ~tok.pool
    /\ n_vals < limits.vals
    /\ n_vals' = n_vals + 1
    /\ tokens' = IF held THEN tokens (-) One(tok) ELSE tokens
    /\ LET value == Val(n_vals + 1, share)
           key == tok.key
           conn == connecting
       IN IF is_enabled
          THEN IF reserve(value).shared
               THEN LET p == put(key, reserve(value).keep, racers)
                        r == connected(conn, p.waiters, p.checkouts, key)
                    IN /\ racers = p.failed
                       /\ Commit(r.connecting, p.idle, r.waiters,
                                 p.idle_interval_ref, p.task, r.checkouts,
                                 pool_handle,
                                 handles, tokens, arcs)
                       /\ assert_failed' = Failed(assert_failed, "connected",
                                         ~r.existed)
                       /\ handles' = handles
                            (+) One(Handle(key, reserve(value).give, FALSE, FALSE))
                       /\ last' = Call("pooled", key, "Shared", p.outcome)
               ELSE \* Unique: the token is dropped when pooled returns
                    /\ racers = {}
                    /\ handles' = handles
                            (+) One(Handle(key, reserve(value).give, FALSE, TRUE))
                    /\ last' = Call("pooled", key, "Unique", "")
                    /\ IF tok.pool
                       THEN LET r == connected(conn, waiters, checkouts, key)
                            IN /\ Commit(r.connecting, idle, r.waiters,
                                         idle_interval_ref, task, r.checkouts,
                                         pool_handle,
                                         handles, tokens, arcs)
                               /\ assert_failed' = Failed(assert_failed, "connected",
                                         ~r.existed)
                       ELSE UNCHANGED << Inner, assert_failed >>
          ELSE /\ racers = {}
               /\ handles' = handles (+) One(Handle(key, value, FALSE, FALSE))
               /\ last' = Call("pooled", key, "Disabled", "")
               \* debug_assert!(connecting.pool.upgrade().is_none())
               /\ assert_failed' = Failed(assert_failed, "pooled",
                                         tok.pool /\ inner_alive)
               /\ UNCHANGED Inner
    /\ UNCHANGED << Config, val_closed, now, arcs >>

\* A faulty Drop for Pooled: the value goes back to the pool whether the handle
\* has a back-ref or not.
PooledDropIgnoresRef(h) ==
    /\ BagIn(h, handles)
    /\ ~h.arc
    /\ IF ~is_open(h.value)
       THEN /\ handles' = handles (-) One(h)
            /\ last' = Call("drop_pooled", h.key, "closed", "")
       ELSE IF inner_alive
       THEN /\ handles' = (handles (-) One(h)) (+) One([h EXCEPT !.arc = TRUE])
            /\ last' = Call("upgrade", h.key, "Pooled", "Some")
       ELSE /\ handles' = handles (-) One(h)
            /\ last' = Call("drop_pooled", h.key, "no_pool", "")
    /\ UNCHANGED << Inner, Config, n_vals, tokens, arcs, now,
                    assert_failed >>
    /\ Forget

\* A faulty Drop for Pooled: the value is put back without asking is_open().
PooledDropPutsClosed(h) ==
    /\ BagIn(h, handles)
    /\ ~h.arc
    /\ IF h.pool /\ inner_alive
       THEN /\ handles' = (handles (-) One(h)) (+) One([h EXCEPT !.arc = TRUE])
            /\ last' = Call("upgrade", h.key, "Pooled", "Some")
       ELSE /\ handles' = handles (-) One(h)
            /\ last' = Call("drop_pooled", h.key, "no_pool", "")
    /\ UNCHANGED << Inner, Config, n_vals, tokens, arcs, now,
                    assert_failed >>
    /\ Forget

\* Drop for Pooled, up to self.pool.upgrade(): the value is taken out and
\* tested, and a live back-ref gives an Arc of PoolInner, which the drop
\* holds from here on; the lock has not been asked for.
PooledDrop(h) ==
    /\ BagIn(h, handles)
    /\ ~h.arc
    /\ IF ~is_open(h.value)
       THEN /\ handles' = handles (-) One(h)
            /\ last' = Call("drop_pooled", h.key, "closed", "")
       ELSE IF h.pool /\ inner_alive
       THEN /\ handles' = (handles (-) One(h)) (+) One([h EXCEPT !.arc = TRUE])
            /\ last' = Call("upgrade", h.key, "Pooled", "Some")
       ELSE /\ handles' = handles (-) One(h)
            /\ last' = Call("drop_pooled", h.key, "no_pool", "")
    /\ UNCHANGED << Inner, Config, n_vals, tokens, arcs, now,
                    assert_failed >>
    /\ Forget

\* Drop for Pooled, `if let Ok(mut inner) = pool.lock()`: the value is put
\* under the lock.  The Arc lives on after the MutexGuard is gone.
PooledPut(h, racers) ==
    /\ BagIn(h, handles)
    /\ h.arc
    /\ handles' = handles (-) One(h)
    /\ arcs' = arcs (+) One(Arc("Pooled", h.key, "none"))
    /\ LET p == put(h.key, h.value, racers)
       IN /\ racers = p.failed
          /\ Commit(connecting, p.idle, p.waiters, p.idle_interval_ref,
                    p.task, p.checkouts, pool_handle,
                    handles', tokens, arcs')
          /\ last' = Call("drop_pooled", h.key, "put", p.outcome)
    /\ UNCHANGED << Config, n_vals, tokens, now, assert_failed >>
    /\ Forget

\* The end of `if let Some(pool) = self.pool.upgrade()` in Drop for Pooled
\* and Drop for Connecting: the Arc is released, and PoolInner with it when
\* it was the last.  The alpn_h2 whose self this was returns its token.
ArcRelease(a) ==
    /\ BagIn(a, arcs)
    /\ arcs' = arcs (-) One(a)
    /\ tokens' = IF a.ret = "Some"
                 THEN tokens (+) One(Token(a.key, TRUE))
                 ELSE tokens
    /\ Commit(connecting, idle, waiters, idle_interval_ref, task, checkouts,
              pool_handle, handles, tokens', arcs')
    /\ last' = Call("drop_arc", a.key, a.of, "")
    /\ UNCHANGED << Config, n_vals, handles, now, assert_failed >>
    /\ Forget

\* Pool::checkout
CheckoutNew(k) ==
    /\ pool_handle
    /\ Len(checkouts) < limits.checkouts
    /\ checkouts' = Append(checkouts, NewCheckout(k))
    /\ last' = NoCall
    /\ UNCHANGED << pool_handle, inner_alive, Config, connecting, idle,
                    waiters, idle_interval_ref, task, n_vals, val_closed,
                    tokens, handles, now, assert_failed, arcs >>

\* A faulty reuse: the handle is not marked as reused.
reuse_fresh(key, value) ==
    Handle(key, value, FALSE, ~can_share(value) /\ is_enabled)

\* Pool::reuse
reuse(key, value) == Handle(key, value, TRUE, ~can_share(value) /\ is_enabled)

\* A Checkout whose poll returned Ready: self.waiter is None, the future
\* and its clone of the Pool live on until the owner drops them.
Resolved(co, result, value) ==
    [key |-> co.key, st |-> "done", waiter |-> FALSE, tx |-> "none",
     slot |-> NoVal, woken |-> FALSE, result |-> result, value |-> value]

\* A faulty poll_waiter: the value received is returned without is_open().
poll_waiter_unchecked(x) ==
    LET co == checkouts[x]
    IN IF co.tx = "sent"
       THEN [ready |-> TRUE, result |-> "Ok", value |-> co.slot]
       ELSE IF co.tx = "dropped"
       THEN [ready |-> TRUE, result |-> "CheckoutNoLongerWanted",
             value |-> NoVal]
       ELSE [ready |-> FALSE, result |-> "Pending", value |-> NoVal]

\* Checkout::poll_waiter, for a Checkout whose waiter is Some
poll_waiter(x) ==
    LET co == checkouts[x]
    IN IF co.tx = "sent"
       THEN IF is_open(co.slot)
            THEN [ready |-> TRUE, result |-> "Ok", value |-> co.slot]
            ELSE [ready |-> TRUE, result |-> "CheckedOutClosedValue",
                  value |-> NoVal]
       ELSE IF co.tx = "dropped"
       THEN [ready |-> TRUE, result |-> "CheckoutNoLongerWanted",
             value |-> NoVal]
       ELSE [ready |-> FALSE, result |-> "Pending", value |-> NoVal]

\* A faulty checkout: a list in which nothing usable was found is left in
\* idle, emptied.
checkout_keeps_key(x) ==
    LET key == checkouts[x].key
        has_list == key \in DOMAIN idle
        popped == IF has_list THEN pop(idle[key])
                  ELSE [found |-> FALSE, entry |-> NoEntry, list |-> <<>>]
        idle1 == IF has_list THEN [idle EXCEPT ![key] = popped.list]
                 ELSE idle
        register == ~popped.found /\ ~checkouts[x].waiter
        waiters1 == IF register
                    THEN Insert(waiters, key,
                            Append(IF key \in DOMAIN waiters
                                   THEN waiters[key] ELSE <<>>, x))
                    ELSE waiters
    IN [found |-> popped.found, entry |-> popped.entry, idle |-> idle1,
        waiters |-> waiters1, register |-> register]

\* Checkout::checkout, for a Checkout of an enabled pool: the entry it
\* returns, and idle and waiters when the lock is released
checkout(x) ==
    LET key == checkouts[x].key
        has_list == key \in DOMAIN idle
        popped == IF has_list THEN pop(idle[key])
                  ELSE [found |-> FALSE, entry |-> NoEntry, list |-> <<>>]
        empty == IF popped.found THEN popped.list = <<>> ELSE TRUE
        idle1 == IF empty THEN Remove(idle, key)
                 ELSE [idle EXCEPT ![key] = popped.list]
        register == ~popped.found /\ ~checkouts[x].waiter
        waiters1 == IF register
                    THEN Insert(waiters, key,
                            Append(IF key \in DOMAIN waiters
                                   THEN waiters[key] ELSE <<>>, x))
                    ELSE waiters
    IN [found |-> popped.found, entry |-> popped.entry, idle |-> idle1,
        waiters |-> waiters1, register |-> register]

\* A faulty poll: a pending waiter does not end the poll, which goes on to
\* the probe of idle.
CheckoutPollProbes(x) ==
    /\ x \in Cids
    /\ checkouts[x].st \in {"created", "parked"}
    /\ LET co == checkouts[x]
           w == poll_waiter(x)
       IN IF co.waiter /\ w.ready
          THEN /\ Commit(connecting, idle, waiters, idle_interval_ref, task,
                    [checkouts EXCEPT ![x] = Resolved(co, w.result, w.value)],
                    pool_handle,
                         handles, tokens, arcs)
               /\ handles' = IF w.result = "Ok"
                             THEN handles (+) One(reuse(co.key, w.value))
                             ELSE handles
               /\ last' = PollCall(co.key, "waiter", w.result, 0)
          ELSE LET p == checkout(x)
               IN IF p.found
                  THEN /\ Commit(connecting, p.idle, p.waiters,
                            idle_interval_ref, task,
                            [checkouts EXCEPT ![x] = Resolved(co, "Ok", p.entry.value)],
                            pool_handle,
                                 handles, tokens, arcs)
                       /\ handles' = handles (+) One(reuse(co.key, p.entry.value))
                       /\ last' = PollCall(co.key, "probe", "Ok",
                            saturating_duration_since(now, p.entry.idle_at))
                  ELSE /\ Commit(connecting, p.idle, p.waiters,
                            idle_interval_ref, task,
                            [checkouts EXCEPT ![x] =
                                [co EXCEPT !.st = "parked",
                                           !.waiter = co.waiter \/ p.register,
                                           !.tx = IF p.register THEN "queued" ELSE @,
                                           !.woken = FALSE,
                                           !.result = "Pending"]],
                            pool_handle,
                                 handles, tokens, arcs)
                       /\ handles' = handles
                       /\ last' = PollCall(co.key, "probe", "Pending", 0)
    /\ UNCHANGED << Config, n_vals, tokens, now, assert_failed, arcs >>
    /\ Forget

\* Future for Checkout: one call of poll
CheckoutPoll(x) ==
    /\ x \in Cids
    /\ checkouts[x].st \in {"created", "parked"}
    /\ LET co == checkouts[x]
       IN IF co.waiter
          THEN LET w == poll_waiter(x)
               IN IF w.ready
                  THEN /\ Commit(connecting, idle, waiters, idle_interval_ref,
                            task,
                            [checkouts EXCEPT ![x] = Resolved(co, w.result, w.value)],
                            pool_handle,
                                 handles, tokens, arcs)
                       /\ handles' = IF w.result = "Ok"
                                     THEN handles (+) One(reuse(co.key, w.value))
                                     ELSE handles
                       /\ last' = PollCall(co.key, "waiter", w.result, 0)
                  ELSE \* ready!(..) returns Pending; the waker is registered anew
                       /\ checkouts' = [checkouts EXCEPT ![x].woken = FALSE,
                                                         ![x].result = "Pending"]
                       /\ last' = PollCall(co.key, "waiter", "Pending", 0)
                       /\ UNCHANGED << pool_handle, inner_alive, connecting,
                                       idle, waiters, idle_interval_ref, task,
                                       handles >>
          ELSE IF ~is_enabled
          THEN /\ Commit(connecting, idle, waiters, idle_interval_ref, task,
                    [checkouts EXCEPT ![x] = Resolved(co, "PoolDisabled", NoVal)],
                    pool_handle,
                         handles, tokens, arcs)
               /\ handles' = handles
               /\ last' = PollCall(co.key, "probe", "PoolDisabled", 0)
          ELSE LET p == checkout(x)
               IN IF p.found
                  THEN /\ Commit(connecting, p.idle, p.waiters,
                            idle_interval_ref, task,
                            [checkouts EXCEPT ![x] = Resolved(co, "Ok", p.entry.value)],
                            pool_handle,
                                 handles, tokens, arcs)
                       /\ handles' = handles (+) One(reuse(co.key, p.entry.value))
                       /\ last' = PollCall(co.key, "probe", "Ok",
                            saturating_duration_since(now, p.entry.idle_at))
                  ELSE /\ Commit(connecting, p.idle, p.waiters,
                            idle_interval_ref, task,
                            [checkouts EXCEPT ![x] =
                                [co EXCEPT !.st = "parked",
                                           !.waiter = p.register,
                                           !.tx = IF p.register THEN "queued" ELSE @,
                                           !.result = "Pending"]],
                            pool_handle,
                                 handles, tokens, arcs)
                       /\ handles' = handles
                       /\ last' = PollCall(co.key, "probe", "Pending", 0)
    /\ UNCHANGED << Config, n_vals, tokens, now, assert_failed, arcs >>
    /\ Forget

Dropped(co) ==
    [key |-> co.key, st |-> "dropped", waiter |-> FALSE, tx |-> "none",
     slot |-> NoVal, woken |-> FALSE, result |-> "None", value |-> NoVal]

\* A faulty Drop for Checkout: a value found in the channel is pushed back
\* to idle.
CheckoutDropReturnsValue(x) ==
    /\ x \in Cids
    /\ checkouts[x].st \in {"created", "parked", "done"}
    /\ IF checkouts[x].waiter
       THEN /\ checkouts' = DropReceivers(checkouts, {x})
            /\ idle' = IF checkouts[x].tx = "sent"
                       THEN Insert(idle, checkouts[x].key,
                                Append(IF checkouts[x].key \in DOMAIN idle
                                       THEN idle[checkouts[x].key] ELSE <<>>,
                                       Idle(checkouts[x].slot, now)))
                       ELSE idle
            /\ UNCHANGED << pool_handle, inner_alive, connecting,
                            waiters, idle_interval_ref, task >>
       ELSE Commit(connecting, idle, waiters, idle_interval_ref, task,
                   [checkouts EXCEPT ![x] = Dropped(checkouts[x])],
                   pool_handle,
                   handles, tokens, arcs)
    /\ last' = NoCall
    /\ UNCHANGED << Config, n_vals, tokens, handles, arcs, now,
                    assert_failed >>
    /\ Forget

\* Drop for Checkout, up to `self.waiter.take().is_some()`: the Receiver is
\* dropped before the mutex is taken.  A Checkout that never parked, or one
\* that has resolved, has no waiter and nothing more to do: its clone of the
\* Pool is released.
CheckoutDrop(x) ==
    /\ x \in Cids
    /\ checkouts[x].st \in {"created", "parked", "done"}
    /\ IF checkouts[x].waiter
       THEN /\ checkouts' = DropReceivers(checkouts, {x})
            /\ UNCHANGED << pool_handle, inner_alive, connecting, idle,
                            waiters, idle_interval_ref, task >>
       ELSE Commit(connecting, idle, waiters, idle_interval_ref, task,
                   [checkouts EXCEPT ![x] = Dropped(checkouts[x])],
                   pool_handle,
                   handles, tokens, arcs)
    /\ last' = NoCall
    /\ UNCHANGED << Config, n_vals, tokens, handles, arcs, now,
                    assert_failed >>
    /\ Forget

\* Drop for Checkout, the rest: clean_waiters under the mutex
CheckoutClean(x) ==
    /\ x \in Cids
    /\ checkouts[x].st = "dropping"
    /\ LET r == clean_waiters(waiters, checkouts, checkouts[x].key)
       IN Commit(connecting, idle, r.waiters, idle_interval_ref, task,
                 [r.checkouts EXCEPT ![x].st = "cleaned"],
                 pool_handle, handles, tokens, arcs)
    /\ last' = Call("drop_checkout", checkouts[x].key, "clean_waiters", "")
    /\ UNCHANGED << Config, n_vals, val_closed, tokens, handles, arcs, now,
                    assert_failed >>

\* After Drop::drop of a Checkout that had a waiter has returned, its fields
\* are dropped, the clone of the Pool among them.
CheckoutFree(x) ==
    /\ x \in Cids
    /\ checkouts[x].st = "cleaned"
    /\ Commit(connecting, idle, waiters, idle_interval_ref, task,
              [checkouts EXCEPT ![x] = Dropped(checkouts[x])],
              pool_handle, handles, tokens, arcs)
    /\ last' = Call("drop_checkout", checkouts[x].key, "pool", "")
    /\ UNCHANGED << Config, n_vals, tokens, handles, arcs, now,
                    assert_failed >>
    /\ Forget

\* The last Pool the caller holds is dropped.
PoolDrop ==
    /\ pool_handle
    \* an alpn_h2 under way borrows a Pool
    /\ \A tok \in BagToSet(tokens) : tok.ret = "none"
    /\ \A a \in BagToSet(arcs) : a.ret = "none"
    /\ Commit(connecting, idle, waiters, idle_interval_ref, task, checkouts,
              FALSE,
              handles, tokens, arcs)
    /\ last' = NoCall
    /\ UNCHANGED << Config, n_vals, tokens, handles, arcs, now,
                    assert_failed >>
    /\ Forget

\* The connection behind a value closes: is_open() is false from now on.
Close(v) ==
    /\ v \in Held(idle, checkouts, handles)
    /\ is_open(v)
    /\ val_closed' = val_closed \cup {v.id}
    /\ last' = NoCall
    /\ UNCHANGED << pool_handle, inner_alive, Config, connecting, idle,
                    waiters, idle_interval_ref, task, n_vals, tokens, handles,
                    checkouts, now, assert_failed, arcs >>

\* Time passes.
Tick ==
    /\ now < limits.ticks * TickMs
    /\ now' = now + TickMs
    /\ last' = NoCall
    /\ UNCHANGED << pool_handle, inner_alive, Config, connecting, idle,
                    waiters, idle_interval_ref, task, n_vals, val_closed,
                    tokens, handles, checkouts, assert_failed, arcs >>

\* Pool::no_timer, the test hook: idle_interval_ref is set to a Sender whose
\* Receiver is dropped at once, and no IdleTask is spawned.
NoTimerCall ==
    /\ pool_handle
    /\ inner_alive
    /\ ~idle_interval_ref
    /\ idle_interval_ref' = TRUE
    /\ task' = [task EXCEPT !.st = "elided"]
    /\ last' = Call("no_timer", "", "", "")
    /\ UNCHANGED << pool_handle, inner_alive, Config, connecting, idle,
                    waiters, n_vals, val_closed, tokens, handles, checkouts,
                    now, assert_failed, arcs >>

\* IdleTask::run, up to the loop: the executor polls the task for the first
\* time, and the sleep is set to Instant::now() + duration as read then.
IdleTaskStart ==
    /\ task.st = "spawned"
    /\ task' = [task EXCEPT !.st = "sleeping",
                            !.deadline = now + task.duration]
    /\ last' = NoCall
    /\ UNCHANGED << pool_handle, inner_alive, Config, connecting, idle,
                    waiters, idle_interval_ref, n_vals, val_closed, tokens,
                    handles, checkouts, now, assert_failed, arcs >>

\* A faulty IdleTask: the select waits for the sleep only and does not see
\* that the pool was dropped.
IdleTaskSelectSleepOnly ==
    /\ task.st = "sleeping"
    /\ now >= task.deadline
    /\ task' = [task EXCEPT !.st = "fired"]
    /\ last' = NoCall
    /\ UNCHANGED << pool_handle, inner_alive, Config, connecting, idle,
                    waiters, idle_interval_ref, n_vals, val_closed, tokens,
                    handles, checkouts, now, assert_failed, arcs >>

\* IdleTask::run, the select: the drop notifier is polled first, the sleep
\* second.
IdleTaskSelect ==
    /\ task.st = "sleeping"
    /\ IF ~idle_interval_ref
       THEN task' = [task EXCEPT !.st = "done"]
       ELSE /\ now >= task.deadline
            /\ task' = [task EXCEPT !.st = "fired"]
    /\ last' = NoCall
    /\ UNCHANGED << pool_handle, inner_alive, Config, connecting, idle,
                    waiters, idle_interval_ref, n_vals, val_closed, tokens,
                    handles, checkouts, now, assert_failed, arcs >>

\* A faulty IdleTask: the sleep is not reset after a pass.
IdleTaskResetKeepsDeadline ==
    /\ task.st = "passed"
    /\ task' = [task EXCEPT !.st = "sleeping"]
    /\ last' = Call("reset", "", "", "")
    /\ UNCHANGED << pool_handle, inner_alive, Config, connecting, idle,
                    waiters, idle_interval_ref, n_vals, val_closed, tokens,
                    handles, checkouts, now, assert_failed, arcs >>

\* IdleTask::run, the Right arm at self.pool.upgrade(): while PoolInner
\* lives the task gets an Arc of it, which it holds through the pass; when
\* it is gone the task goes on to the reset of its sleep.
IdleTaskUpgrade ==
    /\ task.st = "fired"
    /\ task' = [task EXCEPT !.st = IF inner_alive THEN "upgraded"
                                                  ELSE "passed"]
    /\ last' = Call("upgrade", "", "IdleTask",
                    IF inner_alive THEN "Some" ELSE "None")
    /\ UNCHANGED << pool_handle, inner_alive, Config, connecting, idle,
                    waiters, idle_interval_ref, n_vals, val_closed, tokens,
                    handles, arcs, checkouts, now, assert_failed >>

\* IdleTask::run, `if let Ok(mut inner) = inner.lock()`: clear_expired runs
\* under the lock, with the clock as read there.  The Arc lives on after
\* the MutexGuard is gone.
IdleTaskPass ==
    /\ task.st = "upgraded"
    /\ idle' = clear_expired
    /\ task' = [task EXCEPT !.st = "cleared"]
    /\ last' = Call("clear_expired", "", "",
                    IF idle' = idle THEN "kept" ELSE "evicted")
    /\ UNCHANGED << pool_handle, inner_alive, Config, connecting, waiters,
                    idle_interval_ref, n_vals, tokens, handles, arcs,
                    checkouts, now, assert_failed >>
    /\ Forget

\* IdleTask::run, the end of `if let Some(inner)`: the task releases its
\* Arc, and PoolInner with it when it was the last.
IdleTaskRelease ==
    /\ task.st = "cleared"
    /\ Commit(connecting, idle, waiters, idle_interval_ref,
              [task EXCEPT !.st = "passed"], checkouts, pool_handle,
              handles, tokens, arcs)
    /\ last' = Call("drop_arc", "", "IdleTask", "")
    /\ UNCHANGED << Config, n_vals, tokens, handles, arcs, now,
                    assert_failed >>
    /\ Forget

\* IdleTask::run, the end of the Right arm: the clock is read again and the
\* sleep reset to Instant::now() + duration.
IdleTaskReset ==
    /\ task.st = "passed"
    /\ task' = [task EXCEPT !.st = "sleeping",
                            !.deadline = now + task.duration]
    /\ last' = Call("reset", "", "", "")
    /\ UNCHANGED << pool_handle, inner_alive, Config, connecting, idle,
                    waiters, idle_interval_ref, n_vals, val_closed, tokens,
                    handles, checkouts, now, assert_failed, arcs >>

\* -------------------------------------------------------- specifications
Limits(keys, vals, cos, toks, ticks) ==
    [keys |-> keys, vals |-> vals, checkouts |-> cos, tokens |-> toks,
     ticks |-> ticks]

\* The core: an enabled pool with an idle_timeout and no timer, and unique
\* values pooled with a token built on the spot, pooled(c(key), value).
CoreConfigs ==
    [max_idle_per_host : {1, MaxIdleCap},
     timeout : {SomeDuration(IdleTimeoutMs)},
     timer : {FALSE}]

\* One key with two Checkouts and a clock, or two keys with one Checkout.
CoreLimits ==
    {Limits({"foo"}, MaxVals, MaxCheckouts, 0, MaxTicks),
     Limits(Keys, MaxVals, MaxCheckouts - 1, 0, 0)}

Init ==
    \E cfg \in CoreConfigs, lim \in CoreLimits : InitWith(cfg, lim)

Next ==
    \/ \E k \in limits.keys :
            \E racers \in SUBSET Parked(k) :
                PooledCall(c(k), FALSE, FALSE, racers)
    \/ \E h \in BagToSet(handles) : PooledDrop(h)
    \/ \E h \in BagToSet(handles) :
            \E racers \in SUBSET Parked(h.key) : PooledPut(h, racers)
    \/ \E a \in BagToSet(arcs) : ArcRelease(a)
    \/ \E k \in limits.keys : CheckoutNew(k)
    \/ \E x \in Cids : CheckoutPoll(x)
    \/ \E x \in Cids : CheckoutDrop(x)
    \/ \E x \in Cids : CheckoutClean(x)
    \/ \E x \in Cids : CheckoutFree(x)
    \/ \E v \in Held(idle, checkouts, handles) : Close(v)
    \/ Tick

Spec == Init /\ [][Next]_vars

\* Idle entries as they age: one key, no idle_timeout, a short and a long
\* one, and a clock that runs for MaxTicks ticks.
IdleConfigs ==
    [max_idle_per_host : {1, MaxIdleCap},
     timeout : {NoDuration, SomeDuration(IdleTimeoutMs),
                SomeDuration(TestTimeoutMs)},
     timer : {FALSE}]

\* Lists of one entry are filled by unique values with one Checkout; lists
\* of two by unique values with two Checkouts, or by unique and shareable
\* values with one.
IdleLimits(cfg) ==
    IF cfg.max_idle_per_host = 1
    THEN {Limits({"foo"}, MaxVals, MaxCheckouts - 1, 0, MaxTicks)}
    ELSE {Limits({"foo"}, MaxVals, MaxCheckouts, 0, MaxTicks),
          Limits({"foo"}, MaxVals, MaxCheckouts - 1, 1, MaxTicks)}

InitIdle ==
    \E cfg \in IdleConfigs : \E lim \in IdleLimits(cfg) : InitWith(cfg, lim)

\* A shareable value is pooled as a client does it: Pool::connecting with
\* Ver::Http2 in one step, Pool::pooled with the token it returned in a
\* later one.
NextIdle ==
    \/ \E k \in limits.keys : ConnectingCall(k, "Http2")
    \/ \E tok \in BagToSet(tokens) :
            \E racers \in SUBSET Parked(tok.key) :
                PooledCall(tok, TRUE, TRUE, racers)
    \/ \E k \in limits.keys :
            \E racers \in SUBSET Parked(k) :
                PooledCall(c(k), FALSE, FALSE, racers)
    \/ \E h \in BagToSet(handles) : PooledDrop(h)
    \/ \E h \in BagToSet(handles) :
            \E racers \in SUBSET Parked(h.key) : PooledPut(h, racers)
    \/ \E a \in BagToSet(arcs) : ArcRelease(a)
    \/ \E k \in limits.keys : CheckoutNew(k)
    \/ \E x \in Cids : CheckoutPoll(x)
    \/ \E x \in Cids : CheckoutDrop(x)
    \/ \E x \in Cids : CheckoutClean(x)
    \/ \E x \in Cids : CheckoutFree(x)
    \/ \E v \in Held(idle, checkouts, handles) : Close(v)
    \/ Tick

SpecIdle == InitIdle /\ [][NextIdle]_vars

\* Single-flight: the Connecting tokens of an enabled or a disabled pool.
ConnConfigs ==
    [max_idle_per_host : {0, 1},
     timeout : {SomeDuration(IdleTimeoutMs)},
     timer : {FALSE}]

\* One key with two values, or two keys with one.
ConnLimits ==
    {Limits({"foo"}, MaxVals, MaxCheckouts - 1, MaxTokens, 0),
     Limits(Keys, MaxVals - 1, MaxCheckouts - 1, MaxTokens, 0)}

InitConn ==
    \E cfg \in ConnConfigs, lim \in ConnLimits : InitWith(cfg, lim)

NextConn ==
    \/ \E k \in limits.keys, ver \in Vers : ConnectingCall(k, ver)
    \/ \E tok \in BagToSet(tokens) : AlpnH2(tok)
    \/ \E tok \in BagToSet(tokens) : TokenDrop(tok)
    \/ \E tok \in BagToSet(tokens) : TokenConnected(tok)
    \/ \E tok \in BagToSet(tokens), share \in BOOLEAN :
            \E racers \in SUBSET Parked(tok.key) :
                PooledCall(tok, TRUE, share, racers)
    \/ \E h \in BagToSet(handles) : PooledDrop(h)
    \/ \E h \in BagToSet(handles) :
            \E racers \in SUBSET Parked(h.key) : PooledPut(h, racers)
    \/ \E a \in BagToSet(arcs) : ArcRelease(a)
    \/ \E k \in limits.keys : CheckoutNew(k)
    \/ \E x \in Cids : CheckoutPoll(x)
    \/ \E x \in Cids : CheckoutDrop(x)
    \/ \E x \in Cids : CheckoutClean(x)
    \/ \E x \in Cids : CheckoutFree(x)

SpecConn == InitConn /\ [][NextConn]_vars

\* The executor polls a task that has been woken, unless the Checkout is
\* dropped first.
WokenPoll(x) ==
    IF x \in Cids THEN checkouts[x].woken /\ CheckoutPoll(x) ELSE FALSE

SpecConnFair ==
    /\ InitConn
    /\ [][NextConn]_vars
    /\ \A x \in 1..MaxCheckouts : WF_vars(WokenPoll(x))

\* Everything: every operation, the IdleTask and the release of the pool.
AllConfigs ==
    [max_idle_per_host : {1},
     timeout : {SomeDuration(IdleTimeoutMs)},
     timer : {TRUE}]

\* One value with a Checkout and a clock of two ticks, or two values with
\* neither.
AllLimits ==
    {Limits({"foo"}, MaxVals - 1, MaxCheckouts - 1, MaxTokens - 1, MaxTicks),
     Limits({"foo"}, MaxVals, 0, MaxTokens - 1, 0)}

InitAll ==
    \E cfg \in AllConfigs, lim \in AllLimits : InitWith(cfg, lim)

NextAll ==
    \/ \E k \in limits.keys, ver \in Vers : ConnectingCall(k, ver)
    \/ \E tok \in BagToSet(tokens) : AlpnH2(tok)
    \/ \E tok \in BagToSet(tokens) : TokenDrop(tok)
    \/ \E tok \in BagToSet(tokens) : TokenConnected(tok)
    \/ \E tok \in BagToSet(tokens), share \in BOOLEAN :
            \E racers \in SUBSET Parked(tok.key) :
                PooledCall(tok, TRUE, share, racers)
    \/ \E h \in BagToSet(handles) : PooledDrop(h)
    \/ \E h \in BagToSet(handles) :
            \E racers \in SUBSET Parked(h.key) : PooledPut(h, racers)
    \/ \E a \in BagToSet(arcs) : ArcRelease(a)
    \/ \E k \in limits.keys : CheckoutNew(k)
    \/ \E x \in Cids : CheckoutPoll(x)
    \/ \E x \in Cids : CheckoutDrop(x)
    \/ \E x \in Cids : CheckoutClean(x)
    \/ \E x \in Cids : CheckoutFree(x)
    \/ \E v \in Held(idle, checkouts, handles) : Close(v)
    \/ Tick
    \/ IdleTaskStart
    \/ IdleTaskSelect
    \/ IdleTaskUpgrade
    \/ IdleTaskPass
    \/ IdleTaskRelease
    \/ IdleTaskReset
    \/ PoolDrop

SpecAll == InitAll /\ [][NextAll]_vars

\* The waiter queue at length: one key, no clock, and one Checkout more
\* than the core for unique values.
WaitConfigs ==
    [max_idle_per_host : {1},
     timeout : {SomeDuration(IdleTimeoutMs)},
     timer : {FALSE}]

WaitLimits ==
    {Limits({"foo"}, MaxVals, MaxCheckouts + 1, 0, 0),
     Limits({"foo"}, MaxVals, MaxCheckouts, 1, 0)}

InitWait ==
    \E cfg \in WaitConfigs, lim \in WaitLimits : InitWith(cfg, lim)

NextWait ==
    \/ \E k \in limits.keys : ConnectingCall(k, "Http2")
    \/ \E tok \in BagToSet(tokens) :
            \E racers \in SUBSET Parked(tok.key) :
                PooledCall(tok, TRUE, TRUE, racers)
    \/ \E k \in limits.keys :
            \E racers \in SUBSET Parked(k) :
                PooledCall(c(k), FALSE, FALSE, racers)
    \/ \E h \in BagToSet(handles) : PooledDrop(h)
    \/ \E h \in BagToSet(handles) :
            \E racers \in SUBSET Parked(h.key) : PooledPut(h, racers)
    \/ \E a \in BagToSet(arcs) : ArcRelease(a)
    \/ \E k \in limits.keys : CheckoutNew(k)
    \/ \E x \in Cids : CheckoutPoll(x)
    \/ \E x \in Cids : CheckoutDrop(x)
    \/ \E x \in Cids : CheckoutClean(x)
    \/ \E x \in Cids : CheckoutFree(x)
    \/ \E v \in Held(idle, checkouts, handles) : Close(v)

SpecWait == InitWait /\ [][NextWait]_vars

\* Eviction: one key, lists of up to three entries, a timer, the timeouts
\* of the tests, values that close, and a clock that reaches the first pass
\* of the IdleTask under either timeout.
EvictConfigs ==
    [max_idle_per_host : {MaxVals + 1},
     timeout : {SomeDuration(IdleTimeoutMs), SomeDuration(TestTimeoutMs)},
     timer : {TRUE}]

\* Two values with a Checkout, or three with none.
EvictLimits ==
    {Limits({"foo"}, MaxVals, MaxCheckouts - 1, 0, MaxTicks + 1),
     Limits({"foo"}, MaxVals + 1, 0, 0, MaxTicks + 1)}

InitEvict ==
    \E cfg \in EvictConfigs, lim \in EvictLimits : InitWith(cfg, lim)

NextEvict ==
    \/ \E k \in limits.keys :
            \E racers \in SUBSET Parked(k) :
                PooledCall(c(k), FALSE, FALSE, racers)
    \/ \E h \in BagToSet(handles) : PooledDrop(h)
    \/ \E h \in BagToSet(handles) :
            \E racers \in SUBSET Parked(h.key) : PooledPut(h, racers)
    \/ \E a \in BagToSet(arcs) : ArcRelease(a)
    \/ \E k \in limits.keys : CheckoutNew(k)
    \/ \E x \in Cids : CheckoutPoll(x)
    \/ \E x \in Cids : CheckoutDrop(x)
    \/ \E x \in Cids : CheckoutClean(x)
    \/ \E x \in Cids : CheckoutFree(x)
    \/ \E v \in Held(idle, checkouts, handles) : Close(v)
    \/ Tick
    \/ IdleTaskStart
    \/ IdleTaskSelect
    \/ IdleTaskUpgrade
    \/ IdleTaskPass
    \/ IdleTaskRelease
    \/ IdleTaskReset

SpecEvict == InitEvict /\ [][NextEvict]_vars

\* The idle interval: pools with and without a timer, with no timeout, a
\* zero timeout and the timeout of the tests, the no_timer hook, the IdleTask
\* and the drop of the Pool.
TimerConfigs ==
    [max_idle_per_host : {1},
     timeout : {NoDuration, SomeDuration(0), SomeDuration(IdleTimeoutMs)},
     timer : BOOLEAN]

InitTimer ==
    \E cfg \in TimerConfigs :
        InitWith(cfg, Limits({"foo"}, MaxVals, MaxCheckouts - 1, 0, MaxTicks))

NextTimer ==
    \/ \E k \in limits.keys :
            \E racers \in SUBSET Parked(k) :
                PooledCall(c(k), FALSE, FALSE, racers)
    \/ \E h \in BagToSet(handles) : PooledDrop(h)
    \/ \E h \in BagToSet(handles) :
            \E racers \in SUBSET Parked(h.key) : PooledPut(h, racers)
    \/ \E a \in BagToSet(arcs) : ArcRelease(a)
    \/ \E k \in limits.keys : CheckoutNew(k)
    \/ \E x \in Cids : CheckoutPoll(x)
    \/ \E x \in Cids : CheckoutDrop(x)
    \/ \E x \in Cids : CheckoutClean(x)
    \/ \E x \in Cids : CheckoutFree(x)
    \/ Tick
    \/ NoTimerCall
    \/ IdleTaskStart
    \/ IdleTaskSelect
    \/ IdleTaskUpgrade
    \/ IdleTaskPass
    \/ IdleTaskRelease
    \/ IdleTaskReset
    \/ PoolDrop

SpecTimer == InitTimer /\ [][NextTimer]_vars

\* The executor runs the IdleTask when its timer fires or when the Sender it
\* selects on is dropped.
SpecTimerFair ==
    /\ InitTimer
    /\ [][NextTimer]_vars
    /\ WF_vars(IdleTaskStart)
    /\ WF_vars(IdleTaskSelect)
    /\ WF_vars(IdleTaskUpgrade)
    /\ WF_vars(IdleTaskPass)
    /\ WF_vars(IdleTaskRelease)
    /\ WF_vars(IdleTaskReset)

\* ------------------------------------------------------------ the claims
\* Where the value v is held right now: the entries of the idle lists, the
\* channels that carry it to a Receiver, and the Pooled handles.
IdleHoldersIn(idl, v) ==
    UNION {{<< k, i >> : i \in {j \in DOMAIN idl[k] : idl[k][j].value = v}} :
                k \in DOMAIN idl}
IdleHolders(v) == IdleHoldersIn(idle, v)
SlotHolders(v) == {x \in Cids : checkouts[x].slot = v}
HandleHolders(v) ==
    UNION {{<< h, n >> : n \in 1..CopiesIn(h, handles)} :
                h \in {g \in BagToSet(handles) : g.value = v}}

\* C1: a value whose reservation is Unique is held in at most one place at
\* any time: one entry of an idle list, one waiter channel or one Pooled
\* handle.  So no two Checkouts hold the same unique value, and a value a
\* Pooled holds is not in idle.
C1_UniqueHeldOnce ==
    \A i \in 1..n_vals :
        LET v == Val(i, FALSE)
        IN Cardinality(IdleHolders(v)) + Cardinality(SlotHolders(v))
                + Cardinality(HandleHolders(v)) <= 1

\* A unique value travels to a parked Checkout while a Pooled that a
\* Checkout resolved with holds the other one.
C1_Witness ==
    \E x \in Cids, h \in BagToSet(handles) :
        /\ checkouts[x].tx = "sent"
        /\ checkouts[x].slot # NoVal
        /\ ~can_share(checkouts[x].slot)
        /\ ~can_share(h.value)
        /\ h.is_reused

\* A Pooled is dropped and its put finds the idle list of the key at the cap.
C2_PutAtCap ==
    \A h \in BagToSet(handles) :
        ( /\ handles' = handles (-) One(h)
          /\ is_open(h.value)
          /\ h.pool
          /\ inner_alive
          /\ h.key \in DOMAIN idle
          /\ Len(idle[h.key]) >= max_idle_per_host )
        => ( /\ idle' = idle
             /\ h.value \notin Held(idle', checkouts', handles') )

\* C2: the length of idle[k] never exceeds max_idle_per_host, for every key
\* k; a put that finds the list at the cap drops its value and leaves the
\* list as it was.
C2_IdleCap ==
    /\ [](\A k \in DOMAIN idle : Len(idle[k]) <= max_idle_per_host)
    /\ [][C2_PutAtCap]_vars

\* The put of a dropped Pooled has just found the list full.
C2_Witness ==
    /\ last.op = "drop_pooled"
    /\ last.ret = "full"
    /\ last.key \in DOMAIN idle
    /\ Len(idle[last.key]) = max_idle_per_host

\* C4: if idle[k] is present then waiters[k] holds no waiter whose Receiver
\* is alive: put offers its value to the waiters before it inserts, and a
\* Checkout registers only after its probe has left idle[k] absent.
C4_NoLiveWaiterWhileIdle ==
    \A k \in DOMAIN idle :
        k \in DOMAIN waiters =>
            \A i \in DOMAIN waiters[k] : is_canceled(checkouts, waiters[k][i])

\* A put has passed over a waiter whose Checkout was being dropped and has
\* then inserted its value into idle.
C4_Witness ==
    /\ last.op = "drop_pooled"
    /\ last.ret = "idle"
    /\ last.key \in DOMAIN idle
    /\ \E x \in Cids :
            /\ checkouts[x].key = last.key
            /\ checkouts[x].st = "dropping"
            /\ checkouts[x].tx = "dropped"

\* The Checkout that has just resolved, if the step is a poll that resolves.
ResolvedNow(x) ==
    /\ x \in DOMAIN checkouts
    /\ checkouts[x].st \in {"created", "parked"}
    /\ checkouts'[x].st = "done"

\* C5: a value with which a Checkout resolves Ok satisfies is_open() at the
\* moment it is returned, whether it comes from the idle list or from a
\* waiter hand-off.
C5_OkIsOpen ==
    [][\A x \in DOMAIN checkouts :
            (ResolvedNow(x) /\ checkouts'[x].result = "Ok")
                => is_open(checkouts'[x].value)]_vars

\* One Checkout resolved Ok and another received a value that had closed on
\* the way.
C5_Witness ==
    \E x, y \in Cids :
        /\ checkouts[x].st = "done"
        /\ checkouts[x].result = "Ok"
        /\ checkouts[y].st = "done"
        /\ checkouts[y].result = "CheckedOutClosedValue"

\* C3: no key maps to an empty idle list and no key maps to an empty waiter
\* queue: put, the checkout probe, clean_waiters, connected and
\* clear_expired remove the key whose list or queue they emptied, and put
\* leaves no empty list behind from entry().or_default().
C3_NoEmptyEntries ==
    /\ \A k \in DOMAIN idle : idle[k] # <<>>
    /\ \A k \in DOMAIN waiters : waiters[k] # <<>>

\* clear_expired has just evicted the last idle entry there was.
C3_Witness ==
    /\ last.op = "clear_expired"
    /\ last.ret = "evicted"
    /\ inner_alive
    /\ idle = EmptyMap

\* What Pool::connecting and Connecting::alpn_h2 did, read from the call
\* that `last` records in the next state.  The calls are those within the
\* contract of alpn_h2: self has no back-ref, as its debug_assert! requires.
C6_Call ==
    (last'.op \in {"connecting", "alpn_h2"} /\ last'.arg # "AlreadyHttp2") =>
        LET k == last'.key
            \* alpn_h2 consumes the token it is called on
            self == IF last'.op = "alpn_h2" THEN One(c(k)) ELSE EmptyBag
        IN IF last'.arg = "Http2" /\ is_enabled
           THEN IF k \notin connecting
                THEN /\ last'.ret = "SomeRef"
                     /\ connecting' = connecting \cup {k}
                     /\ tokens' = (tokens (-) self) (+) One(Token(k, TRUE))
                ELSE /\ last'.ret = "None"
                     /\ connecting' = connecting
                     /\ tokens' = tokens (-) self
                     /\ UNCHANGED << inner_alive, idle, waiters,
                                     idle_interval_ref, handles, checkouts >>
           ELSE /\ last'.ret = "SomeNoRef"
                /\ connecting' = connecting
                /\ tokens' = (tokens (-) self) (+) One(c(k))

\* C6: on an enabled pool connecting(k, Http2), and alpn_h2 which delegates
\* to it, returns a token with a back-ref and adds k to connecting iff k was
\* not in connecting; otherwise it returns None and changes no state.  For
\* another version, or on a disabled pool, it returns a token with no
\* back-ref and leaves connecting as it was.
C6_SingleFlight == [][C6_Call]_vars

\* A second connecting(k, Http2) has been refused while the token of the
\* first is alive.
C6_Witness ==
    /\ last.op = "connecting"
    /\ last.arg = "Http2"
    /\ last.ret = "None"
    /\ last.key \in connecting
    /\ BagIn(Token(last.key, TRUE), tokens)

\* How many Connecting tokens with a back-ref exist for k; one whose drop
\* has upgraded and has not yet run connected is among them.
C7_Tokens(k) ==
    LET S == {tok \in BagToSet(tokens) : tok.key = k /\ tok.pool}
    IN BagCardinality([tok \in S |-> tokens[tok]])

\* A token with a back-ref has just been dropped, or consumed by pooled.
C7_Released ==
    \A tok \in BagToSet(tokens) :
        ( /\ tok.pool
          /\ inner_alive
          /\ tokens' = tokens (-) One(tok)
          /\ last'.op \in {"drop_connecting", "pooled"} )
        => tok.key \notin connecting'

\* C7: in every state of a live pool, k is in connecting iff exactly one
\* live Connecting token with a back-ref exists for k; once that token is
\* dropped, or consumed by pooled(), k is no longer in connecting.  The
\* states looked at are those no debug_assert! has failed on the way to.
C7_ConnectingIffToken ==
    /\ []((inner_alive /\ assert_failed = {}) =>
            \A k \in Keys : k \in connecting <=> C7_Tokens(k) = 1)
    /\ [][C7_Released]_vars

\* The shareable entries of an idle list.
SharedEntries(list) == {i \in DOMAIN list : can_share(list[i].value)}

\* A put of a shareable value that found idle[k] present changed nothing.
C8_PutExisting ==
    (last'.op = "pooled" /\ last'.ret = "existing") => idle' = idle

\* A Checkout that has just resolved with a shareable entry of the idle list
\* left exactly one copy of it behind, at the tail and with a new idle_at.
C8_SharedCheckout ==
    \A x \in DOMAIN checkouts :
        ( /\ ResolvedNow(x)
          /\ ~checkouts[x].waiter
          /\ checkouts'[x].result = "Ok"
          /\ can_share(checkouts'[x].value) )
        => LET k == checkouts[x].key
               v == checkouts'[x].value
           IN /\ k \in DOMAIN idle'
              /\ Cardinality(IdleHoldersIn(idle', v)) = 1
              /\ idle'[k][Len(idle'[k])] = Idle(v, now)
              /\ Len(idle'[k]) <= Len(idle[k])

\* C8, as the code has it: idle[k] holds at most one shareable entry (a key
\* may hold unique entries beside it); a put of a shareable value when
\* idle[k] exists drops the value and changes nothing, and a checkout that
\* reserves a shared entry pushes exactly one copy back.
C8_OneSharedEntry ==
    /\ [](\A k \in DOMAIN idle : Cardinality(SharedEntries(idle[k])) <= 1)
    /\ [][C8_PutExisting]_vars
    /\ [][C8_SharedCheckout]_vars

\* C8 as stated: a key for which a shareable value is idle holds at most one
\* entry.
C8_Original ==
    /\ [](\A k \in DOMAIN idle :
            SharedEntries(idle[k]) # {} => Len(idle[k]) <= 1)
    /\ [][C8_PutExisting]_vars
    /\ [][C8_SharedCheckout]_vars

\* A Checkout resolved with a shareable value that is still idle, and the
\* put of a second shareable value for the key has just been dropped.
C8_Witness ==
    /\ last.op = "pooled"
    /\ last.ret = "existing"
    /\ \E x \in Cids :
            /\ checkouts[x].st = "done"
            /\ checkouts[x].result = "Ok"
            /\ checkouts[x].key = last.key
            /\ can_share(checkouts[x].value)
            /\ checkouts[x].value \in IdleVals(idle)

\* The waiters of key k whose Receiver is alive, earliest first.
LiveWaiters(k) ==
    IF k \in DOMAIN waiters
    THEN SelectSeq(waiters[k], LAMBDA tx : ~is_canceled(checkouts, tx))
    ELSE <<>>

\* A Pooled with an open unique value and a live back-ref is dropped while a
\* Checkout is parked as the earliest live waiter of the key (and is not
\* dropped at that very moment): the value goes to that Checkout, which is
\* woken, and not into idle.
C9_HandOff ==
    \A h \in BagToSet(handles) :
        ( /\ handles' = handles (-) One(h)
          /\ is_open(h.value)
          /\ ~can_share(h.value)
          /\ h.pool
          /\ inner_alive
          /\ LiveWaiters(h.key) # <<>>
          /\ checkouts'[Head(LiveWaiters(h.key))].st = "parked" )
        => LET x == Head(LiveWaiters(h.key))
           IN /\ checkouts'[x].tx = "sent"
              /\ checkouts'[x].slot = h.value
              /\ checkouts'[x].woken
              /\ h.value \notin IdleVals(idle')

\* A parked Checkout that has been sent a value stays woken until it polls.
C9_NoLostWakeup ==
    \A x \in Cids :
        (checkouts[x].st = "parked" /\ checkouts[x].tx = "sent")
            => checkouts[x].woken

\* The next poll of a Checkout that has been sent a unique value: Ok with
\* that value if it is open at that poll, CheckedOutClosedValue if not.
C9_NextPoll ==
    \A x \in DOMAIN checkouts :
        ( /\ checkouts[x].st = "parked"
          /\ checkouts[x].tx = "sent"
          /\ ~can_share(checkouts[x].slot)
          /\ ResolvedNow(x) )
        => IF is_open(checkouts[x].slot)
           THEN /\ checkouts'[x].result = "Ok"
                /\ checkouts'[x].value = checkouts[x].slot
                /\ BagIn(reuse(checkouts[x].key, checkouts[x].slot), handles')
           ELSE /\ checkouts'[x].result = "CheckedOutClosedValue"
                /\ handles' = handles

\* C9: the open unique value of a dropped Pooled goes to the earliest live
\* waiter of the key and not into idle, the waiter is woken and the wake-up
\* is not lost; its next poll resolves Ok with that value, the value being
\* open at that poll (one that has closed on the way yields
\* CheckedOutClosedValue, which is C17).
C9_HandOffThenPoll ==
    /\ []C9_NoLostWakeup
    /\ [][C9_HandOff]_vars
    /\ [][C9_NextPoll]_vars

\* The put of a dropped Pooled has just sent its unique value to a parked
\* Checkout and woken it.
C9_Witness ==
    /\ last.op = "drop_pooled"
    /\ last.ret = "sent"
    /\ \E x \in Cids :
            /\ checkouts[x].key = last.key
            /\ checkouts[x].st = "parked"
            /\ checkouts[x].tx = "sent"
            /\ checkouts[x].woken
            /\ ~can_share(checkouts[x].slot)

\* A waiter that receives a value in this step leaves no waiter parked that
\* registered before it for the same key.
C10_Step ==
    \A k \in DOMAIN waiters :
        \A i, j \in DOMAIN waiters[k] :
            ( /\ i < j
              /\ checkouts[waiters[k][j]].tx = "queued"
              /\ checkouts'[waiters[k][j]].tx = "sent" )
            => ~ ( /\ checkouts'[waiters[k][i]].st = "parked"
                   /\ checkouts'[waiters[k][i]].tx = "queued" )

\* C10: the waiters of one key are served in the order in which they
\* registered: a value put goes to the earliest waiter whose Checkout has
\* not been dropped, and a later waiter receives nothing while an earlier
\* live waiter of the key is still parked.
C10_Fifo == [][C10_Step]_vars

\* Two Checkouts are parked on one key; the first to register has been sent
\* a value and the second is still in the queue.
C10_Witness ==
    \E x, y \in Cids :
        /\ x # y
        /\ checkouts[x].key = checkouts[y].key
        /\ checkouts[x].st = "parked"
        /\ checkouts[x].tx = "sent"
        /\ checkouts[y].st = "parked"
        /\ checkouts[y].tx = "queued"
        /\ waiters = Insert(EmptyMap, checkouts[y].key, << y >>)

\* The Checkout x is polled for the first time in this step.
FirstPoll(x) ==
    /\ x \in DOMAIN checkouts
    /\ checkouts[x].st = "created"
    /\ checkouts'[x].st \in {"parked", "done"}

\* The put of a dropped Pooled: the drop holds the Arc of a live pool, and
\* the value it puts is unique and open; no waiter of the key is live.
C11_Puts(h) ==
    /\ BagIn(h, handles)
    /\ h.arc
    /\ ~can_share(h.value)
    /\ is_open(h.value)
    /\ handles' = handles (-) One(h)
    /\ last'.op = "drop_pooled"
    /\ last'.arg = "put"
    /\ h.key \in DOMAIN waiters
        => \A y \in Range(waiters[h.key]) : is_canceled(checkouts, y)

C11_IdleLen(k) == IF k \in DOMAIN idle THEN Len(idle[k]) ELSE 0

\* With room in idle[k] the value goes to its tail; at the cap it is dropped.
C11_Drop ==
    \A h \in BagToSet(handles) :
        C11_Puts(h)
        => IF C11_IdleLen(h.key) < max_idle_per_host
           THEN /\ h.key \in DOMAIN idle'
                /\ idle'[h.key][Len(idle'[h.key])] = Idle(h.value, now)
                /\ Len(idle'[h.key]) = C11_IdleLen(h.key) + 1
           ELSE /\ idle' = idle
                /\ h.value \notin Held(idle', checkouts', handles')

\* As stated: the value goes to the tail of idle[k] whatever idle[k] holds.
C11_DropAsStated ==
    \A h \in BagToSet(handles) :
        C11_Puts(h)
        => /\ h.key \in DOMAIN idle'
           /\ idle'[h.key][Len(idle'[h.key])].value = h.value

\* The first poll of a Checkout for k, before the idle timeout of the open
\* unique value at the tail of idle[k] has elapsed, resolves to a Pooled that
\* holds it with is_reused() true, and it is no longer in idle.
C11_Poll ==
    \A x \in DOMAIN checkouts :
        LET k == checkouts[x].key
        IN ( /\ FirstPoll(x)
             /\ inner_alive
             /\ k \in DOMAIN idle
             /\ ~can_share(idle[k][Len(idle[k])].value)
             /\ is_open(idle[k][Len(idle[k])].value)
             /\ ~expires(idle[k][Len(idle[k])].idle_at) )
           => LET v == idle[k][Len(idle[k])].value
              IN /\ checkouts'[x].st = "done"
                 /\ checkouts'[x].result = "Ok"
                 /\ checkouts'[x].value = v
                 /\ BagIn(Handle(k, v, TRUE, TRUE), handles')
                 /\ v \notin IdleVals(idle')

\* C11 as stated: on an enabled pool with no waiter parked on k, the open
\* unique value v of a dropped Pooled is in idle[k] for the checkout that
\* follows, which resolves on its first poll with v.
C11_Original == [][C11_DropAsStated /\ C11_Poll]_vars

\* C11: round trip.  On an enabled pool with no waiter parked on k and fewer
\* than max_idle_per_host entries idle for k, the open unique value v of a
\* dropped Pooled goes to the tail of idle[k]; a Checkout for k polled
\* before the idle timeout has elapsed then resolves on its first poll to a
\* Pooled that holds v with is_reused() true, and v is no longer in idle.
\* When idle[k] is at max_idle_per_host the drop discards v.
C11_RoundTrip == [][C11_Drop /\ C11_Poll]_vars

\* The first poll of a Checkout has just returned the unique value that a
\* dropped Pooled had put into idle, some time after it was put there.
C11_Witness ==
    /\ last.op = "poll"
    /\ last.arg = "probe"
    /\ last.ret = "Ok"
    /\ last.age > 0
    /\ \E h \in BagToSet(handles) :
            /\ h.key = last.key
            /\ h.is_reused
            /\ h.pool
            /\ ~can_share(h.value)
            /\ h.value \notin IdleVals(idle)

\* What a disabled pool looks like: there is no PoolInner, nothing is idle,
\* nobody waits, no handle has a back-ref, and a Checkout is either not yet
\* polled or has resolved with PoolDisabled.
C12_State ==
    max_idle_per_host = 0 =>
        /\ ~inner_alive
        /\ idle = EmptyMap
        /\ waiters = EmptyMap
        /\ \A h \in BagToSet(handles) : ~h.pool
        /\ \A x \in Cids :
            /\ ~checkouts[x].waiter
            /\ checkouts[x].st \in {"created", "done", "dropped"}
            /\ checkouts[x].st = "done" => checkouts[x].result = "PoolDisabled"

\* On a disabled pool the first poll of a Checkout resolves, and the drop of
\* a Pooled changes nothing but the handle.
C12_Step ==
    max_idle_per_host = 0 =>
        /\ \A x \in DOMAIN checkouts :
            FirstPoll(x) => /\ checkouts'[x].st = "done"
                            /\ checkouts'[x].result = "PoolDisabled"
        /\ \A h \in BagToSet(handles) :
            handles' = handles (-) One(h) =>
                UNCHANGED << inner_alive, connecting, idle, waiters,
                             idle_interval_ref, task, checkouts >>

\* C12: a pool built with max_idle_per_host = 0 is disabled: every Checkout
\* resolves with PoolDisabled on its first poll, no waiter is ever
\* registered, and pooled() returns a handle with no back-ref whose drop
\* does nothing.
C12_Disabled == []C12_State /\ [][C12_Step]_vars

\* On a disabled pool a value has been pooled and its handle dropped, and a
\* Checkout has just resolved with PoolDisabled.
C12_Witness ==
    /\ max_idle_per_host = 0
    /\ n_vals > 0
    /\ handles = EmptyBag
    /\ last.op = "poll"
    /\ last.ret = "PoolDisabled"

\* The open entries of an idle list, by position.
OpenEntries(list) == {i \in DOMAIN list : is_open(list[i].value)}

\* A Checkout that resolves from the idle list returns an entry that is not
\* older than idle_timeout.
C13_NotExpired ==
    \A x \in DOMAIN checkouts :
        ( /\ ResolvedNow(x)
          /\ ~checkouts[x].waiter
          /\ checkouts'[x].result = "Ok" )
        => LET k == checkouts[x].key
           IN /\ k \in DOMAIN idle
              /\ \E i \in DOMAIN idle[k] :
                    /\ idle[k][i].value = checkouts'[x].value
                    /\ timeout.is_some => now - idle[k][i].idle_at <= timeout.dur

\* With no idle_timeout the probe returns the open entry nearest the tail,
\* however old it is.
C13_NoTimeout ==
    \A x \in DOMAIN checkouts :
        LET k == checkouts[x].key
        IN ( /\ FirstPoll(x)
             /\ ~timeout.is_some
             /\ inner_alive
             /\ k \in DOMAIN idle
             /\ OpenEntries(idle[k]) # {} )
           => LET i == CHOOSE j \in OpenEntries(idle[k]) :
                            \A m \in OpenEntries(idle[k]) : m <= j
              IN /\ checkouts'[x].st = "done"
                 /\ checkouts'[x].result = "Ok"
                 /\ checkouts'[x].value = idle[k][i].value

\* C13: the idle probe of a checkout never returns an entry whose age
\* (now - idle_at) is greater than idle_timeout; when idle_timeout is None
\* no entry expires by age.
C13_ProbeAge == [][C13_NotExpired /\ C13_NoTimeout]_vars

\* With an idle_timeout set, a Checkout has just resolved with an entry that
\* had aged in the idle list without expiring.
C13_Witness ==
    /\ timeout.is_some
    /\ last.op = "poll"
    /\ last.arg = "probe"
    /\ last.ret = "Ok"
    /\ last.age > 0

\* With no idle_timeout, a Checkout has just resolved with an entry older
\* than the timeouts of the other pools.
C13_WitnessNone ==
    /\ ~timeout.is_some
    /\ last.op = "poll"
    /\ last.ret = "Ok"
    /\ last.age > IdleTimeoutMs

\* The places of waiters that hold the Sender of Checkout x.
SendersOf(x) ==
    UNION {{<< k, i >> : i \in {j \in DOMAIN waiters[k] : waiters[k][j] = x}} :
                k \in DOMAIN waiters}

\* A Checkout has at most one Sender in waiters, under its own key.
C14_OneSender ==
    \A x \in Cids :
        /\ Cardinality(SendersOf(x)) <= 1
        /\ \A p \in SendersOf(x) : p[1] = checkouts[x].key

\* A poll of a Checkout that is parked and stays pending registers nothing.
C14_Repoll ==
    (last'.op = "poll" /\ last'.arg = "waiter" /\ last'.ret = "Pending")
        => waiters' = waiters

\* The drop of a parked Checkout runs clean_waiters: its Sender is gone, the waiters
\* whose Receiver is alive are left in their order, and a queue that became
\* empty is removed.
C14_Drop ==
    \A x \in DOMAIN checkouts :
        ( /\ checkouts[x].st = "dropping"
          /\ checkouts'[x].st = "cleaned"
          /\ inner_alive )
        => LET k == checkouts[x].key
               before == IF k \in DOMAIN waiters THEN waiters[k] ELSE <<>>
               live == SelectSeq(before, LAMBDA tx : ~is_canceled(checkouts, tx))
           IN /\ SendersOf(x)' = {}
              /\ IF live = <<>>
                 THEN k \notin DOMAIN waiters'
                 ELSE k \in DOMAIN waiters' /\ waiters'[k] = live
              /\ \A j \in Keys \ {k} :
                    /\ j \in DOMAIN waiters' <=> j \in DOMAIN waiters
                    /\ j \in DOMAIN waiters => waiters'[j] = waiters[j]

\* C14: a Checkout has at most one sender in waiters[k] however often it is
\* polled while pending; once the drop of a parked Checkout has run
\* clean_waiters
\* its sender is no longer in waiters[k], the other live waiters remain in
\* their order, and the queue is removed if it became empty.
C14_WaiterOnce ==
    /\ []C14_OneSender
    /\ [][C14_Repoll]_vars
    /\ [][C14_Drop]_vars

\* The drop of a parked Checkout has just run clean_waiters and the other
\* Checkout is still parked on the key, alone in the queue.
C14_Witness ==
    /\ last.op = "drop_checkout"
    /\ last.arg = "clean_waiters"
    /\ last.key \in DOMAIN waiters
    /\ Len(waiters[last.key]) = 1
    /\ \E x \in Cids :
            /\ checkouts[x].key = last.key
            /\ checkouts[x].st = "parked"
            /\ checkouts[x].tx = "queued"
            /\ waiters[last.key] = << x >>

\* A Connecting token with a back-ref is dropped: the waiters of its key are
\* removed, and each Checkout parked there finds its channel closed and is
\* woken.
C15_TokenDrop ==
    \A tok \in BagToSet(tokens) :
        ( /\ tokens' = tokens (-) One(tok)
          /\ last'.op = "drop_connecting"
          /\ tok.pool
          /\ inner_alive
          /\ assert_failed' = {} )
        => /\ tok.key \notin DOMAIN waiters'
           /\ tok.key \in DOMAIN waiters =>
                \A x \in Range(waiters[tok.key]) :
                    checkouts[x].waiter =>
                        /\ checkouts'[x].st = "parked"
                        /\ checkouts'[x].tx = "dropped"
                        /\ checkouts'[x].woken

\* The poll of a parked Checkout whose Sender has been dropped resolves with
\* CheckoutNoLongerWanted.
C15_NextPoll ==
    \A x \in DOMAIN checkouts :
        ( /\ checkouts[x].st = "parked"
          /\ checkouts[x].tx = "dropped"
          /\ last'.op = "poll"
          /\ checkouts'[x] # checkouts[x] )
        => /\ checkouts'[x].st = "done"
           /\ checkouts'[x].result = "CheckoutNoLongerWanted"
           /\ handles' = handles

\* The Checkout x is parked and its Sender has been dropped.
C15_Cancelled(x) ==
    IF x \in Cids
    THEN checkouts[x].st = "parked" /\ checkouts[x].tx = "dropped"
    ELSE FALSE

\* C15: when a single-flight Connecting token for k is dropped without a
\* value having been pooled through it, waiters[k] is removed and every
\* Checkout that was parked on k resolves with CheckoutNoLongerWanted on its
\* next poll; none stays pending forever (a woken task is polled).
C15_TokenDropCancels ==
    /\ [][C15_TokenDrop]_vars
    /\ [][C15_NextPoll]_vars
    /\ \A x \in 1..MaxCheckouts :
        C15_Cancelled(x) ~> ~C15_Cancelled(x)

\* No value has been pooled; the drop of the single-flight token has just
\* closed the channel of a parked Checkout and woken it.
C15_Witness ==
    /\ n_vals = 0
    /\ last.op = "drop_connecting"
    /\ last.key \notin DOMAIN waiters
    /\ \E x \in Cids :
            /\ checkouts[x].key = last.key
            /\ checkouts[x].st = "parked"
            /\ checkouts[x].tx = "dropped"
            /\ checkouts[x].woken

\* C16: dropping a Pooled whose value reports is_open() == false leaves
\* idle, waiters and connecting unchanged: the value is neither inserted into
\* idle nor handed to a waiter (no channel changes, no IdleTask is spawned).
C16_Step ==
    \A h \in BagToSet(handles) :
        ( /\ ~h.arc
          /\ h.value.id \in val_closed
          /\ CopiesIn(h, handles') < CopiesIn(h, handles) )
        => /\ handles' = handles (-) One(h)
           /\ last'.op = "drop_pooled"
           /\ last'.arg = "closed"
           /\ arcs' = arcs
           /\ inner_alive' = inner_alive
           /\ idle' = idle
           /\ waiters' = waiters
           /\ connecting' = connecting
           /\ checkouts' = checkouts
           /\ idle_interval_ref' = idle_interval_ref
           /\ task' = task

C16_ClosedDropIsNoop == [][C16_Step]_vars

\* A Pooled whose value had closed has just been dropped
\* while a Checkout was parked on its key, still waiting.
C16_Witness ==
    /\ last.op = "drop_pooled"
    /\ last.arg = "closed"
    /\ last.key \in DOMAIN waiters
    /\ \E x \in Cids :
            /\ checkouts[x].key = last.key
            /\ checkouts[x].st = "parked"
            /\ checkouts[x].tx = "queued"

\* C17: when the value a waiter was handed is not open at the time the
\* Checkout polls it, the Checkout resolves with CheckedOutClosedValue and
\* the value is discarded: idle, waiters, the other Checkouts and the handles
\* are as before, and a unique value is held nowhere afterwards.
C17_Step ==
    \A x \in DOMAIN checkouts :
        ( /\ checkouts[x].st = "parked"
          /\ checkouts[x].tx = "sent"
          /\ checkouts[x].slot.id \in val_closed
          /\ last'.op = "poll"
          /\ checkouts'[x] # checkouts[x] )
        => /\ checkouts'[x].st = "done"
           /\ checkouts'[x].result = "CheckedOutClosedValue"
           /\ checkouts'[x].value = NoVal
           /\ idle' = idle
           /\ waiters' = waiters
           /\ handles' = handles
           /\ \A y \in DOMAIN checkouts \ {x} : checkouts'[y] = checkouts[y]
           /\ ~can_share(checkouts[x].slot) =>
                checkouts[x].slot \notin Held(idle', checkouts', handles')

C17_ClosedValueDiscarded == [][C17_Step]_vars

\* A poll has just returned CheckedOutClosedValue while another Checkout is
\* still queued on the same key: the closed value was not offered to it.
C17_Witness ==
    /\ last.op = "poll"
    /\ last.arg = "waiter"
    /\ last.ret = "CheckedOutClosedValue"
    /\ last.key \in DOMAIN waiters
    /\ \E y \in Cids :
            /\ checkouts[y].key = last.key
            /\ checkouts[y].st = "parked"
            /\ checkouts[y].tx = "queued"

\* The Checkout x has a registered waiter that is still pending.
C20_Pending(x) ==
    /\ checkouts[x].st = "parked"
    /\ checkouts[x].waiter
    /\ checkouts[x].tx = "queued"

\* C20 as stated: the poll of a Checkout whose waiter is still pending goes
\* on, in the same poll, to the synchronous probe of idle.
C20_Original ==
    [][\A x \in Cids :
          (C20_Pending(x) /\ CheckoutPoll(x)) => last'.arg = "probe"]_vars

\* C20: the poll of a Checkout whose registered waiter is still pending
\* keeps the receiver and returns Pending at once, from poll_waiter: idle is
\* not probed, and idle, waiters and the handles are as before.
C20_Step ==
    \A x \in Cids :
        (C20_Pending(x) /\ CheckoutPoll(x))
        => /\ last' = PollCall(checkouts[x].key, "waiter", "Pending", 0)
           /\ C20_Pending(x)'
           /\ idle' = idle
           /\ waiters' = waiters
           /\ handles' = handles
           /\ \A y \in Cids \ {x} : checkouts'[y] = checkouts[y]

C20_PendingPollReturns == [][C20_Step]_vars

\* A parked Checkout has just been polled again with its waiter pending: it
\* is still parked, still queued, and the poll returned Pending.
C20_Witness ==
    /\ last.op = "poll"
    /\ last.arg = "waiter"
    /\ last.ret = "Pending"
    /\ \E x \in Cids :
            /\ checkouts[x].key = last.key
            /\ C20_Pending(x)
            /\ ~checkouts[x].woken

\* An IdleTask has been spawned (and waits for its first poll, is sleeping,
\* is in a pass, or has ended).
C18_Spawned ==
    task.st \in {"spawned", "sleeping", "fired", "upgraded", "cleared",
                 "passed", "done"}

\* A task exists only under a nonzero idle_timeout and a timer, and while
\* PoolInner lives idle_interval_ref is set iff a task was spawned or the
\* no_timer hook elided it.
C18_State ==
    /\ C18_Spawned =>
            (timeout.is_some /\ timeout.dur > 0 /\ timer)
    /\ inner_alive => (idle_interval_ref <=> task.st # "none")

\* A put spawns only where none was spawned or elided before, and only when
\* it inserted into idle; nothing but a put spawns.
C18_Step ==
    /\ (last'.op \in {"pooled", "drop_pooled"} /\ task' # task)
        => /\ task.st = "none"
           /\ ~idle_interval_ref
           /\ idle_interval_ref'
           /\ task'.st = "spawned"
           /\ last'.ret = "idle"
    /\ (~C18_Spawned /\ C18_Spawned')
        => /\ last'.op \in {"pooled", "drop_pooled"}
           /\ last'.ret = "idle"
    /\ task.st # "none" => task'.st # "none"

\* C18: over any sequence of puts on one pool at most one IdleTask is ever
\* spawned; it is spawned only by a put that inserted into idle, and none is
\* spawned when idle_timeout is None or zero or when no timer is configured.
\* idle_interval_ref is set iff a task has been spawned or elided by the
\* no_timer hook.
C18_OneIdleTask == []C18_State /\ [][C18_Step]_vars

\* A put has just inserted into idle while the IdleTask is in its sleep: the
\* task is the one an earlier put spawned, and this put spawned none.
C18_Witness ==
    /\ last.op \in {"pooled", "drop_pooled"}
    /\ last.ret = "idle"
    /\ task.st = "sleeping"
    /\ idle_interval_ref

\* Between its passes the IdleTask holds no Arc: PoolInner lives exactly as
\* long as a Pool, a Checkout, or the Arc a drop of a Pooled or a Connecting
\* got from its upgrade and has not let go of.
C19_WeakBetweenPasses ==
    (is_enabled /\ task.st \notin {"upgraded", "cleared"})
    => (inner_alive <=> \/ pool_handle
                        \/ LiveCheckouts(checkouts) # {}
                        \/ InFlight(handles, tokens, NoTask, arcs))

\* Inside a pass, from the upgrade to the end of `if let Some(inner)`, the
\* task's own Arc keeps PoolInner alive.
C19_StrongInsidePass ==
    task.st \in {"upgraded", "cleared"} => inner_alive

\* C19: once the last strong reference to PoolInner is dropped, a spawned
\* IdleTask terminates under fair scheduling, also when it was waiting for
\* its timer; between passes the task's reference is weak and does not keep
\* PoolInner from being released, and the Arc it takes for a pass it lets go
\* of at the end of that pass.
C19_IdleTaskEnds ==
    /\ [](C19_WeakBetweenPasses /\ C19_StrongInsidePass)
    /\ (task.st \in {"upgraded", "cleared"}) ~> (task.st = "passed")
    /\ (~inner_alive
            /\ task.st \in {"spawned", "sleeping", "fired", "passed"})
        ~> (task.st = "done")

\* The IdleTask has ended before the deadline of its sleep: PoolInner was
\* released while the task was waiting for its timer.
C19_Witness ==
    /\ task.st = "done"
    /\ ~inner_alive
    /\ now < task.deadline

\* C21 as stated: when the timer has fired and the weak back-reference
\* cannot be upgraded, the task terminates at that step.
C21_Original ==
    [][(task.st = "fired" /\ ~inner_alive /\ task' # task)
            => task'.st = "done"]_vars

\* The step after the timer fired is the upgrade: with PoolInner alive the
\* task gets an Arc, with PoolInner gone it goes on to the reset of its
\* sleep; idle is not touched.
C21_Upgrade ==
    (task.st = "fired" /\ task' # task)
    => /\ last'.op = "upgrade"
       /\ last'.ret = IF inner_alive THEN "Some" ELSE "None"
       /\ task'.st = IF inner_alive THEN "upgraded" ELSE "passed"
       /\ task'.duration = task.duration
       /\ task'.deadline = task.deadline
       /\ idle' = idle

\* clear_expired runs only after an upgrade that succeeded, under the Arc
\* it gave, and the task then lets go of the Arc and goes on to the reset.
C21_Pass ==
    /\ last'.op = "clear_expired"
        => /\ task.st = "upgraded"
           /\ inner_alive
           /\ idle' = clear_expired
           /\ task'.st = "cleared"
    /\ (task.st = "upgraded" /\ task' # task)
        => last'.op = "clear_expired"
    /\ (task.st = "cleared" /\ task' # task)
        => /\ task'.st = "passed"
           /\ task'.duration = task.duration
           /\ task'.deadline = task.deadline

\* The reset: the sleep is set to the time of the reset + duration.
C21_Reset ==
    (task.st = "passed" /\ task' # task)
    => /\ task'.st = "sleeping"
       /\ task'.deadline = now + task.duration
       /\ task'.duration = task.duration

\* The select of a task whose pool is gone ends the task.
C21_Select ==
    (task.st = "sleeping" /\ ~inner_alive /\ task' # task)
    => task'.st = "done"

\* C21: when the IdleTask's timer has fired and the weak back-reference
\* cannot be upgraded, the task skips clear_expired, resets its sleep and
\* terminates at the select that follows, which finds the notifier
\* cancelled; when the upgrade succeeds it runs clear_expired, resets its
\* sleep to now + duration and continues.
C21_UpgradeFails ==
    /\ [][C21_Upgrade]_vars
    /\ [][C21_Pass]_vars
    /\ [][C21_Reset]_vars
    /\ [][C21_Select]_vars
    /\ (task.st = "fired" /\ ~inner_alive) ~> (task.st = "done")

\* The timer fired, the pool was released before the upgrade, and the
\* upgrade has just failed: the task has not ended and goes on to reset its
\* sleep.
C21_Witness ==
    /\ last.op = "upgrade"
    /\ last.arg = "IdleTask"
    /\ last.ret = "None"
    /\ ~inner_alive
    /\ task.st = "passed"

\* The waiters of k whose Receiver is alive before the step.
C22_Live(k) == {x \in Range(waiters[k]) : checkouts[x].waiter}

\* Those of them whose Receiver is still alive after it: a send to them
\* does not fail.
C22_Takers(k) == {x \in C22_Live(k) : checkouts'[x].waiter}

\* The place in waiters[k] of the first of them.
C22_First(k) ==
    CHOOSE i \in 1..Len(waiters[k]) :
        /\ waiters[k][i] \in C22_Takers(k)
        /\ \A j \in 1..(i - 1) : waiters[k][j] \notin C22_Takers(k)

\* put of a shareable value for a key with waiters and no idle entry
C22_Shared ==
    \A k \in Keys :
        ( /\ last'.op = "pooled"
          /\ last'.arg = "Shared"
          /\ last'.key = k
          /\ k \notin DOMAIN idle
          /\ k \in DOMAIN waiters )
        => /\ \A x \in C22_Takers(k) :
                /\ checkouts'[x].tx = "sent"
                /\ checkouts'[x].slot.id = n_vals'
                /\ can_share(checkouts'[x].slot)
           /\ \A x \in Range(waiters[k]) \ C22_Takers(k) :
                checkouts'[x].tx # "sent"
           /\ k \notin DOMAIN waiters'
           /\ k \in DOMAIN idle'
           /\ Len(idle'[k]) = 1
           /\ idle'[k][1].value.id = n_vals'

\* put of a unique value for a key with waiters
C22_Unique ==
    \A h \in BagToSet(handles) :
        ( /\ handles' = handles (-) One(h)
          /\ last'.op = "drop_pooled"
          /\ last'.arg = "put"
          /\ ~can_share(h.value)
          /\ h.key \in DOMAIN waiters )
        => LET k == h.key
               q == waiters[k]
           IN IF C22_Takers(k) = {}
              THEN /\ k \notin DOMAIN waiters'
                   /\ last'.ret \in {"idle", "full"}
                   /\ \A x \in Range(q) : checkouts'[x].tx # "sent"
              ELSE LET i == C22_First(k)
                       rest == SubSeq(q, i + 1, Len(q))
                   IN /\ checkouts'[q[i]].tx = "sent"
                      /\ checkouts'[q[i]].slot = h.value
                      /\ last'.ret = "sent"
                      /\ idle' = idle
                      /\ IF rest = <<>> THEN k \notin DOMAIN waiters'
                         ELSE k \in DOMAIN waiters' /\ waiters'[k] = rest
                      /\ \A j \in 1..Len(q) :
                            j # i => checkouts'[q[j]].tx # "sent"
                      /\ \A j \in (i + 1)..Len(q) :
                            checkouts'[q[j]] = checkouts[q[j]]

\* C22: a put of a shareable value for a key with no idle entry gives a copy
\* to each live waiter, removes the waiter queue and retains one copy in
\* idle[k]; a put of a unique value gives it to the first live waiter only,
\* the waiters behind it stay queued in order and nothing is added to idle.
\* Canceled Senders met on the way are discarded, and a value rejected by a
\* failed send goes to the next waiter.
C22_PutHandsOver == [][C22_Shared /\ C22_Unique]_vars

\* A put of a unique value has just passed a waiter whose Receiver was
\* gone, handed the value to the next one and left a third one queued.
C22_Witness ==
    /\ last.op = "drop_pooled"
    /\ last.arg = "put"
    /\ last.ret = "sent"
    /\ last.key \in DOMAIN waiters
    /\ \E x, y, z \in Cids :
            /\ checkouts[x].st = "dropping"
            /\ x \notin Range(waiters[last.key])
            /\ checkouts[y].tx = "sent"
            /\ ~can_share(checkouts[y].slot)
            /\ waiters[last.key] = << z >>
            /\ checkouts[z].tx = "queued"

\* C23: connected(key) runs once for each single-flight Connecting token of
\* a live pool, inside pooled() on a Shared reservation or in the token's
\* drop, and whenever it runs key is in connecting: the debug_assert! of
\* connected does not fail on any sequence of calls on tokens that the pool
\* issued.
C23_ConnectedFindsKey ==
    (is_enabled /\ "alpn_h2" \notin assert_failed)
        => "connected" \notin assert_failed

\* The entries of a list that a probe may return: open and not expired.
C24_Usable(list) ==
    {i \in DOMAIN list :
        is_open(list[i].value) /\ ~expires(list[i].idle_at)}

\* The newest of them.
C24_Newest(list) ==
    CHOOSE i \in C24_Usable(list) : \A j \in C24_Usable(list) : j <= i

\* A probe of a key whose list holds a usable entry
C24_Step ==
    \A k \in Keys :
        ( /\ last'.op = "poll"
          /\ last'.arg = "probe"
          /\ last'.key = k
          /\ is_enabled
          /\ k \in DOMAIN idle
          /\ C24_Usable(idle[k]) # {} )
        => LET list == idle[k]
               i == C24_Newest(list)
               older == SubSeq(list, 1, i - 1)
               left == IF can_share(list[i].value)
                       THEN Append(older, Idle(list[i].value, now))
                       ELSE older
           IN /\ last'.ret = "Ok"
              /\ last'.age = saturating_duration_since(now, list[i].idle_at)
              /\ \E x \in Cids :
                    /\ checkouts[x].st = "created"
                    /\ checkouts'[x].st = "done"
                    /\ checkouts'[x].result = "Ok"
                    /\ checkouts'[x].value = list[i].value
              /\ IF left = <<>> THEN k \notin DOMAIN idle'
                 ELSE k \in DOMAIN idle' /\ idle'[k] = left

\* C24: a checkout probe returns the most recently inserted entry of idle[k]
\* that is open and unexpired; closed or expired entries newer than it are
\* discarded, and the entries older than it stay in idle[k] in their order,
\* untested (behind them the copy a shareable entry leaves).
C24_ProbeIsLifo == [][C24_Step]_vars

\* A probe has just returned an entry and left an older one, which is
\* closed, in the list.
C24_Witness ==
    /\ last.op = "poll"
    /\ last.arg = "probe"
    /\ last.ret = "Ok"
    /\ last.key \in DOMAIN idle
    /\ \E i \in DOMAIN idle[last.key] : ~is_open(idle[last.key][i].value)

\* The probe of a Checkout that has no waiter, for a key with no usable
\* entry
C25_Step ==
    \A x \in Cids :
        LET k == checkouts[x].key
        IN ( /\ ~checkouts[x].waiter
             /\ is_enabled
             /\ k \in DOMAIN idle => C24_Usable(idle[k]) = {}
             /\ CheckoutPoll(x) )
           => /\ last' = PollCall(k, "probe", "Pending", 0)
              /\ idle' = Remove(idle, k)
              /\ waiters' = Insert(waiters, k,
                    Append(IF k \in DOMAIN waiters THEN waiters[k] ELSE <<>>, x))
              /\ checkouts[x].tx = "none"
              /\ checkouts'[x].st = "parked"
              /\ checkouts'[x].waiter
              /\ checkouts'[x].tx = "queued"
              /\ checkouts'[x].slot = NoVal
              /\ ~checkouts'[x].woken
              /\ handles' = handles
              /\ \A y \in Cids \ {x} : checkouts'[y] = checkouts[y]

\* C25: a checkout probe that finds no usable entry for its key (no list,
\* or every entry closed or expired) discards those entries, removes the key
\* from idle, registers one waiter for the Checkout and returns Pending; the
\* channel is new at registration, so its receiver is pending.
C25_ProbeParks == [][C25_Step]_vars

\* The only Checkout there has been has just parked: the values pooled
\* before were never handed out, and none of them is left in idle.
C25_Witness ==
    /\ last.op = "poll"
    /\ last.arg = "probe"
    /\ last.ret = "Pending"
    /\ Len(checkouts) = 1
    /\ waiters = [k \in {last.key} |-> << 1 >>]
    /\ n_vals = MaxVals
    /\ now > 0
    /\ idle = EmptyMap
    /\ handles = EmptyBag

\* An entry that clear_expired keeps: open, and of an age not greater than
\* idle_timeout.
C26_Keeps(entry) ==
    /\ is_open(entry.value)
    /\ saturating_duration_since(now, entry.idle_at) <= timeout.dur

\* One pass of clear_expired over a live pool
C26_Step ==
    (last'.op = "clear_expired" /\ inner_alive)
    => /\ DOMAIN idle' \subseteq DOMAIN idle
       /\ \A k \in DOMAIN idle' :
            /\ idle'[k] # <<>>
            /\ \A i \in DOMAIN idle'[k] :
                /\ C26_Keeps(idle'[k][i])
                /\ \E a \in DOMAIN idle[k] : idle[k][a] = idle'[k][i]
            /\ \A i, j \in DOMAIN idle'[k] :
                i < j => \E a, b \in DOMAIN idle[k] :
                            /\ a < b
                            /\ idle[k][a] = idle'[k][i]
                            /\ idle[k][b] = idle'[k][j]
       /\ \A k \in DOMAIN idle :
            \A a \in DOMAIN idle[k] :
                C26_Keeps(idle[k][a]) =>
                    /\ k \in DOMAIN idle'
                    /\ \E i \in DOMAIN idle'[k] : idle'[k][i] = idle[k][a]
       /\ waiters' = waiters
       /\ connecting' = connecting

\* C26: after clear_expired every remaining idle entry is open and has an
\* age not greater than idle_timeout, the surviving entries keep their
\* relative order, every key whose list became empty is removed, and waiters
\* and connecting are unchanged.
C26_ClearExpired == [][C26_Step]_vars

\* A pass has just evicted an entry from a list and left two others in it.
C26_Witness ==
    /\ last.op = "clear_expired"
    /\ last.ret = "evicted"
    /\ \E k \in DOMAIN idle : Len(idle[k]) = 2

\* The duration of a spawned IdleTask is max(d, MIN_CHECK).
C27_State ==
    task.st \in {"spawned", "sleeping", "fired", "upgraded", "cleared",
                 "passed"} =>
        task.duration = Max(timeout.dur, MIN_CHECK)

\* The sleep of the task is set max(d, MIN_CHECK) ahead of the clock, at the
\* first poll of the task, which is not before its spawn, and at the reset
\* that follows each pass; a pass runs only when the sleep has run out; the
\* clock does not go back.  Entries leave idle only through a pass or a
\* checkout probe; after a pass no key is left whose entries have all
\* expired.
C27_Step ==
    /\ (task.st = "none" /\ task'.st # "none")
        => /\ task'.st = "spawned"
           /\ task'.duration = Max(timeout.dur, MIN_CHECK)
    /\ task'.deadline # task.deadline
        => /\ task.st \in {"spawned", "passed"}
           /\ task'.st = "sleeping"
           /\ task'.deadline = now + Max(timeout.dur, MIN_CHECK)
    /\ (task.st = "passed" /\ task'.st = "sleeping")
        => task'.deadline >= task.deadline + Max(timeout.dur, MIN_CHECK)
    /\ (task.st = "sleeping" /\ task'.st = "fired")
        => now >= task.deadline
    /\ now' >= now
    /\ last'.op = "clear_expired"
        => /\ task.st = "upgraded"
           /\ now >= task.deadline
           /\ \A k \in DOMAIN idle :
                (\A i \in DOMAIN idle[k] : expires(idle[k][i].idle_at))
                    => k \notin DOMAIN idle'
    /\ last'.op \notin {"clear_expired", "poll"}
        => \A k \in DOMAIN idle :
                /\ k \in DOMAIN idle'
                /\ Len(idle'[k]) >= Len(idle[k])
                /\ SubSeq(idle'[k], 1, Len(idle[k])) = idle[k]

\* C27: with a timer and idle_timeout d > 0 the eviction passes of the
\* IdleTask are at least max(d, 90 ms) apart, counted from its spawn: when
\* d < 90 ms, entries older than d stay in idle until the first pass, which
\* is not before 90 ms, and after that pass a key whose entries have all
\* expired is gone.
C27_PassesSpaced == []C27_State /\ [][C27_Step]_vars

\* With d below MIN_CHECK, the first pass has just run, MIN_CHECK after the
\* spawn and the first poll of the task at time 0, and has emptied idle.
C27_Witness ==
    /\ timeout.dur < MIN_CHECK
    /\ last.op = "clear_expired"
    /\ last.ret = "evicted"
    /\ now = MIN_CHECK
    /\ task.st = "cleared"
    /\ task.deadline = MIN_CHECK
    /\ idle = EmptyMap

\* Every handle with a back-ref holds a unique value of an enabled pool; a
\* drop holds an Arc only of a handle with a back-ref; and PoolInner lives
\* exactly as long as some strong reference does: a Pool, a Checkout, or an
\* Arc that an upgrade gave to a drop under way or to the IdleTask.  A
\* Pooled that is held and not being dropped is none of these.
C28_State ==
    /\ \A h \in BagToSet(handles) :
            /\ h.pool => (~can_share(h.value) /\ is_enabled)
            /\ h.arc => h.pool
    /\ is_enabled
        => (inner_alive <=> StrongRefs(pool_handle, checkouts, handles,
                                       tokens, task, arcs))

\* The drop of a handle with no back-ref, or of one whose upgrade finds
\* every strong reference gone, ends in one step and changes nothing.
C28_Step ==
    \A h \in BagToSet(handles) :
        ( /\ ~h.arc
          /\ (~h.pool \/ ~inner_alive)
          /\ BagIn(h, handles)
          /\ handles' # handles
          /\ last'.op \in {"drop_pooled", "upgrade"}
          /\ last'.key = h.key
          /\ CopiesIn(h, handles') < CopiesIn(h, handles) )
        => /\ handles' = handles (-) One(h)
           /\ last'.op = "drop_pooled"
           /\ idle' = idle
           /\ waiters' = waiters
           /\ connecting' = connecting
           /\ checkouts' = checkouts
           /\ idle_interval_ref' = idle_interval_ref
           /\ task' = task
           /\ arcs' = arcs
           /\ inner_alive' = inner_alive

\* C28: dropping a Pooled changes no pool state (idle, waiters, connecting)
\* when the handle has no back-ref, as every handle of a shareable value
\* has, or when every strong reference to the pool is gone; a held Pooled
\* refers to the pool weakly and does not keep PoolInner alive.
C28_DropWithoutPool == []C28_State /\ [][C28_Step]_vars

\* An open handle of an enabled pool has just been dropped after the Pool
\* and every Checkout were gone.
C28_Witness ==
    /\ last.op = "drop_pooled"
    /\ last.arg = "no_pool"
    /\ is_enabled
    /\ ~pool_handle
    /\ ~inner_alive

\* The receiver of a Checkout that was handed a unique value is dropped.
C29_Drop ==
    \A x \in Cids :
        ( /\ checkouts[x].st = "parked"
          /\ checkouts[x].tx = "sent"
          /\ ~can_share(checkouts[x].slot)
          /\ checkouts'[x].st = "dropping" )
        => /\ idle' = idle
           /\ waiters' = waiters
           /\ handles' = handles
           /\ checkouts[x].slot \notin Held(idle', checkouts', handles')
           /\ \A y \in Cids \ {x} : checkouts'[y] = checkouts[y]

\* clean_waiters, run by that drop, leaves idle and the live waiters alone.
C29_Clean ==
    \A x \in Cids :
        ( /\ checkouts[x].st = "dropping"
          /\ checkouts[x].tx = "sent"
          /\ checkouts'[x].st = "cleaned" )
        => LET k == checkouts[x].key
               q == IF k \in DOMAIN waiters THEN waiters[k] ELSE <<>>
               live == SelectSeq(q, LAMBDA y : checkouts[y].waiter)
           IN /\ idle' = idle
              /\ handles' = handles
              /\ IF live = <<>> THEN k \notin DOMAIN waiters'
                 ELSE k \in DOMAIN waiters' /\ waiters'[k] = live
              /\ \A y \in Range(live) : checkouts'[y] = checkouts[y]

\* C29: if put has handed a unique value to a Checkout's waiter and that
\* Checkout is dropped before it is polled again, the value is discarded: it
\* is not returned to idle[k] and not offered to another waiter of k, and
\* the remaining waiters of k stay parked.
C29_SentThenDropped == [][C29_Drop /\ C29_Clean]_vars

\* A Checkout that had been handed the only value there is has dropped its
\* receiver: the value is nowhere, and another Checkout is still queued.
C29_Witness ==
    /\ n_vals = 1
    /\ idle = EmptyMap
    /\ handles = EmptyBag
    /\ \E x, y \in Cids :
            /\ checkouts[x].st = "dropping"
            /\ checkouts[x].tx = "sent"
            /\ checkouts[y].key = checkouts[x].key
            /\ checkouts[y].st = "parked"
            /\ checkouts[y].tx = "queued"
            /\ y \in Range(waiters[checkouts[y].key])

====
